---- MODULE Spec2Model ----
(***************************************************************************)
(* FreshiFy persistence layer (src/app/DB_FreshiFy.py): the FreshiFyDB     *)
(* wrapper around the document store.  The module models                   *)
(*   - construction: _connect_with_retry, provisioning, handle caching;    *)
(*   - the record writers, readers and delete operations;                  *)
(*   - get_history (merge of the two telemetry collections);               *)
(*   - calc_summary (month-to-date ledger summary);                        *)
(*   - the handlers that call the layer: thoughts_add (Notify_Alerts.py),  *)
(*     register (Auth_Service.py), history (Sensor_Flask_API_Endpoints.py);*)
(*   - the monitor loop of the launcher (src/main_App.py).                 *)
(* Money is fixed point, in thousandths of a unit.  Instants are           *)
(* <<year, month, day, ms-of-day>> in UTC.                                 *)
(***************************************************************************)
EXTENDS Integers, Sequences, FiniteSets, TLC

VARIABLES
    pc,             \* position inside / after FreshiFyDB.__init__
    max_retries,    \* argument of _connect_with_retry
    wait_seconds,   \* argument of _connect_with_retry
    attempt,        \* loop variable of _connect_with_retry (last attempt started)
    nFailed,        \* attempts that ended in an except branch
    nSleeps,        \* calls of time.sleep
    slept,          \* total seconds slept
    connectedAt,    \* number of the attempt that returned, 0 when none did
    client,         \* self.client: "None" or "MongoClient"
    db,             \* self.db: "None" or "Database"
    handles,        \* the seven cached collection handles: name -> present?
    provisioned,    \* whether _ensure_collections_and_indexes was entered
    sensors_data,   \* store collections (sets of documents)
    images_data,
    notifications,
    calendar_events,
    blogs,
    calc_records,   \* the ledger
    thoughts,
    now,            \* the current UTC instant
    ret,            \* what the last operation returned to its caller
    existing,       \* names of the collections that exist in the store
    indexes,        \* the indexes that exist in the store
    procs,          \* per process: where it is in _ensure_collections_and_indexes
    users,          \* the users collection of the authentication service
    reqs,           \* the /api/auth/register requests in flight
    services,       \* launcher: name -> slot of the services dict
    restart_count,  \* launcher: name -> crashes counted
    restarts,       \* launcher: name -> calls of start_service made by the monitor loop
    monitor         \* launcher: position of the monitor loop in the services dict, 0 once stopped

connVars  == <<pc, max_retries, wait_seconds, attempt, nFailed, nSleeps, slept,
               connectedAt, client, db, handles, provisioned>>
storeVars == <<sensors_data, images_data, notifications, calendar_events,
               blogs, calc_records, thoughts>>
provVars  == <<existing, indexes, procs>>
authVars  == <<users, reqs>>
mainVars  == <<services, restart_count, restarts, monitor>>
extVars   == <<provVars, authVars, mainVars>>
vars      == <<connVars, storeVars, now, ret, extVars>>

----------------------------------------------------------------------------
(* Bounds of the model *)

\* __init__ calls _connect_with_retry(max_retries=5, wait_seconds=3).
InitMaxRetries == 5
InitWaitSeconds == 3

\* The arguments _connect_with_retry is run with.
RetryChoices == {0, 1, 2, InitMaxRetries}
WaitChoices == {InitWaitSeconds}

None == "None"      \* Python's None where a string or a number is expected
NoneT == <<>>       \* Python's None where an instant, an identifier or a text is expected

CollectionNames ==
    {"sensors_data", "images_data", "notifications", "calendar_events",
     "blogs", "calc_records", "thoughts"}

NoHandles  == [c \in CollectionNames |-> FALSE]
AllHandles == [c \in CollectionNames |-> TRUE]

\* The order in which _ensure_collections_and_indexes goes through the names.
CollectionOrder ==
    <<"sensors_data", "images_data", "notifications", "calendar_events",
      "blogs", "calc_records", "thoughts">>

\* cfg.ttl_seconds: TTL_SECONDS, by default 8 days.
ttl_seconds == 691200

NoExpiry == <<>>

\* One create_index call: collection, key specification, expireAfterSeconds
\* and the try block of _ensure_collections_and_indexes the call stands in.
IndexCall(coll, keys, expire, block) ==
    [coll |-> coll, keys |-> keys, expire |-> expire, block |-> block]

\* Mutant of IndexList: the notifications index expires documents as well.
IndexListExpiringNotifications ==
    << IndexCall("sensors_data", "user_1_createdAt_-1", NoExpiry, 1),
       IndexCall("images_data", "user_1_createdAt_-1", NoExpiry, 1),
       IndexCall("notifications", "createdAt_1", <<ttl_seconds>>, 1),
       IndexCall("calendar_events", "user_1_start_-1", NoExpiry, 1),
       IndexCall("blogs", "user_1_createdAt_-1", NoExpiry, 1),
       IndexCall("calc_records", "user_1_date_-1", NoExpiry, 1),
       IndexCall("calc_records", "kind_1", NoExpiry, 1),
       IndexCall("thoughts", "user_1_createdAt_-1", NoExpiry, 1),
       IndexCall("sensors_data", "createdAt_1", <<ttl_seconds>>, 2),
       IndexCall("images_data", "createdAt_1", <<ttl_seconds>>, 2),
       IndexCall("sensors_data", "status_1", NoExpiry, 3),
       IndexCall("images_data", "status_1", NoExpiry, 3),
       IndexCall("blogs", "title_1", NoExpiry, 3),
       IndexCall("blogs", "category_1", NoExpiry, 3),
       IndexCall("blogs", "tags_1", NoExpiry, 3),
       IndexCall("thoughts", "text_text", NoExpiry, 4) >>

\* The create_index calls of _ensure_collections_and_indexes, in program
\* order.  Block 1 is the try of the basic indexes, block 2 the try of the
\* two expiry indexes, block 3 the try of the extra indexes and block 4 the
\* try of the text index, which is nested in block 3.
IndexList ==
    << IndexCall("sensors_data", "user_1_createdAt_-1", NoExpiry, 1),
       IndexCall("images_data", "user_1_createdAt_-1", NoExpiry, 1),
       IndexCall("notifications", "user_1_createdAt_-1", NoExpiry, 1),
       IndexCall("calendar_events", "user_1_start_-1", NoExpiry, 1),
       IndexCall("blogs", "user_1_createdAt_-1", NoExpiry, 1),
       IndexCall("calc_records", "user_1_date_-1", NoExpiry, 1),
       IndexCall("calc_records", "kind_1", NoExpiry, 1),
       IndexCall("thoughts", "user_1_createdAt_-1", NoExpiry, 1),
       IndexCall("sensors_data", "createdAt_1", <<ttl_seconds>>, 2),
       IndexCall("images_data", "createdAt_1", <<ttl_seconds>>, 2),
       IndexCall("sensors_data", "status_1", NoExpiry, 3),
       IndexCall("images_data", "status_1", NoExpiry, 3),
       IndexCall("blogs", "title_1", NoExpiry, 3),
       IndexCall("blogs", "category_1", NoExpiry, 3),
       IndexCall("blogs", "tags_1", NoExpiry, 3),
       IndexCall("thoughts", "text_text", NoExpiry, 4) >>

\* What an index is in the store: the block is a matter of the program only.
StoredIndex(c) == [coll |-> c.coll, keys |-> c.keys, expire |-> c.expire]

AllIndexes == {StoredIndex(IndexList[i]) : i \in 1..Len(IndexList)}

\* The services the launcher starts, in the order of the services dict.
ServiceNames == <<"Sensor", "Image", "Notifications", "Auth">>

\* No process is provisioning, no registration is in flight, the launcher
\* is not running; the store was provisioned by an earlier run.
InitExt ==
    /\ existing = CollectionNames
    /\ indexes = AllIndexes
    /\ procs = <<>>
    /\ users = {}
    /\ reqs = <<>>
    /\ services = <<>>
    /\ restart_count = <<>>
    /\ restarts = <<>>
    /\ monitor = 0

\* The value an operation hands back: a tag, the value, whether an exception
\* left the operation, and how many store calls the operation issued.
Ret(op, arg, tag, val, raised, calls) ==
    [op |-> op, arg |-> arg, tag |-> tag, val |-> val, raised |-> raised, calls |-> calls]

\* An exception leaves the operation: nothing is returned.
Raise(op, arg, calls) == Ret(op, arg, "raised", None, TRUE, calls)

NoRet == Ret("none", <<>>, "None", None, FALSE, 0)

----------------------------------------------------------------------------
(* Construction: __init__ and _connect_with_retry *)

\* Outcomes of one pass through the try body of _connect_with_retry.
\*   ok            MongoClient(...) built, ping answered, self.db set
\*   timeout       ping raised ServerSelectionTimeoutError
\*   error         ping raised some other Exception
\*   client_error  MongoClient(...) itself raised (self.client not assigned)
AttemptOutcomes == {"ok", "timeout", "error", "client_error"}

\* Mutant of LoopContinues: the range runs one attempt too far.
LoopContinuesOffByOne == attempt <= max_retries

\* The `for attempt in range(1, max_retries + 1)` header: another pass?
LoopContinues == attempt < max_retries

\* One pass of the loop body up to the return or the entry of an except branch.
ConnectAttempt(outcome) ==
    /\ pc = "connect"
    /\ LoopContinues
    /\ attempt' = attempt + 1
    /\ IF outcome = "ok"
         THEN /\ client' = "MongoClient"
              /\ db' = "Database"
              /\ connectedAt' = attempt + 1
              /\ pc' = "setup"
              /\ UNCHANGED nFailed
         ELSE /\ client' = IF outcome = "client_error" THEN client ELSE "MongoClient"
              /\ UNCHANGED <<db, connectedAt>>
              /\ nFailed' = nFailed + 1
              /\ pc' = "sleep"
    /\ UNCHANGED <<max_retries, wait_seconds, nSleeps, slept, handles, provisioned>>
    /\ UNCHANGED <<storeVars, now, ret, extVars>>

\* time.sleep(wait_seconds) in either except branch, then back to the loop header.
Sleep ==
    /\ pc = "sleep"
    /\ nSleeps' = nSleeps + 1
    /\ slept' = slept + wait_seconds
    /\ pc' = "connect"
    /\ UNCHANGED <<max_retries, wait_seconds, attempt, nFailed, connectedAt,
                   client, db, handles, provisioned>>
    /\ UNCHANGED <<storeVars, now, ret, extVars>>

\* Mutant of ConnectExhausted: the client of the last attempt is kept.
ConnectExhaustedNoReset ==
    /\ pc = "connect"
    /\ ~LoopContinues
    /\ pc' = "setup"
    /\ UNCHANGED <<max_retries, wait_seconds, attempt, nFailed, nSleeps, slept,
                   connectedAt, client, db, handles, provisioned>>
    /\ UNCHANGED <<storeVars, now, ret, extVars>>

\* The loop ran out: client and db are reset to None.
ConnectExhausted ==
    /\ pc = "connect"
    /\ ~LoopContinues
    /\ client' = "None"
    /\ db' = "None"
    /\ pc' = "setup"
    /\ UNCHANGED <<max_retries, wait_seconds, attempt, nFailed, nSleeps, slept,
                   connectedAt, handles, provisioned>>
    /\ UNCHANGED <<storeVars, now, ret, extVars>>

\* Mutant of CachedHandles: only the two telemetry handles are taken.
CachedHandlesTelemetryOnly ==
    IF db = "None" THEN handles
    ELSE [c \in CollectionNames |-> c \in {"sensors_data", "images_data"}]

\* _cache_collections: the seven handles are taken from self.db.
CachedHandles == IF db = "None" THEN handles ELSE AllHandles

\* The rest of __init__: `if self.db is not None:` try provisioning and caching;
\* an exception in _ensure_collections_and_indexes skips _cache_collections
\* and is logged.
Setup(ensureRaises) ==
    /\ pc = "setup"
    /\ IF db # "None"
         THEN /\ provisioned' = TRUE
              /\ handles' = IF ensureRaises THEN handles ELSE CachedHandles
         ELSE /\ ~ensureRaises
              /\ UNCHANGED <<provisioned, handles>>
    /\ pc' = "ready"
    /\ UNCHANGED <<max_retries, wait_seconds, attempt, nFailed, nSleeps, slept,
                   connectedAt, client, db>>
    /\ UNCHANGED <<storeVars, now, ret, extVars>>

----------------------------------------------------------------------------
(* Provisioning, step by step: _ensure_collections_and_indexes as run by   *)
(* the processes that share the store.  Process 1 is this object: when it  *)
(* leaves the try of __init__, pc, provisioned and handles are set.  Any   *)
(* other process is another FreshiFyDB being constructed elsewhere.        *)

\* A process about to call _ensure_collections_and_indexes after a connection
\* that succeeded.
\*   at         "list", "check", "command", "index", "cache" or "done"
\*   names      the local set `names`
\*   col        position in CollectionOrder of the collection being ensured
\*   idx        position in IndexList of the next create_index call
\*   attempted  positions of the create_index calls made
\*   failed     positions of the create_index calls that raised
\*   logged     the except branches entered: block numbers, and "setup" for
\*              the except of __init__
\*   cached     whether _cache_collections ran
\*   faults     store calls of this process that failed for reasons of the
\*              store (permissions, network)
ProcStart ==
    [at |-> "list", names |-> {}, col |-> 1, idx |-> 1, attempted |-> {},
     failed |-> {}, logged |-> {}, cached |-> FALSE, faults |-> 0]

\* `for col in [...]: ensure(col)` from position c on: the collections already
\* in names are passed over; the first one that is not leads into
\* create_collection, and after the last one the index calls begin.
RECURSIVE EnsureFrom(_, _)
EnsureFrom(st, c) ==
    IF c > Len(CollectionOrder) THEN [st EXCEPT !.at = "index", !.col = c]
    ELSE IF CollectionOrder[c] \in st.names THEN EnsureFrom(st, c + 1)
    ELSE [st EXCEPT !.at = "check", !.col = c]

\* The except of __init__: the error is logged, _cache_collections is skipped.
SetupFailed(st) ==
    [st EXCEPT !.at = "done", !.logged = @ \cup {"setup"}, !.faults = @ + 1]

\* What the end of the try in __init__ means for this object.
Leave(p, cache) ==
    IF p = 1
      THEN /\ pc' = "ready"
           /\ handles' = IF cache THEN CachedHandles ELSE handles
      ELSE UNCHANGED <<pc, handles>>

ProvFrame ==
    /\ UNCHANGED <<max_retries, wait_seconds, attempt, nFailed, nSleeps, slept,
                   connectedAt, client, db>>
    /\ UNCHANGED <<storeVars, now, ret, authVars, mainVars>>

\* names = set(self.db.list_collection_names()); the call stands in no try of
\* its own, so an error leaves _ensure_collections_and_indexes.
ListNames(p, fault) ==
    /\ p \in DOMAIN procs
    /\ procs[p].at = "list"
    /\ provisioned' = IF p = 1 THEN TRUE ELSE provisioned
    /\ IF fault
         THEN /\ procs' = [procs EXCEPT ![p] = SetupFailed(@)]
              /\ Leave(p, FALSE)
         ELSE /\ procs' = [procs EXCEPT ![p] = EnsureFrom([@ EXCEPT !.names = existing], 1)]
              /\ UNCHANGED <<pc, handles>>
    /\ UNCHANGED <<existing, indexes>>
    /\ ProvFrame

\* create_collection(col), first half: the driver lists the names again and
\* raises CollectionInvalid when col is among them; ensure catches that one
\* and goes on.
CreateCheck(p, fault) ==
    /\ p \in DOMAIN procs
    /\ procs[p].at = "check"
    /\ LET st  == procs[p]
           col == CollectionOrder[st.col]
       IN  IF fault
             THEN /\ procs' = [procs EXCEPT ![p] = SetupFailed(st)]
                  /\ Leave(p, FALSE)
             ELSE /\ procs' = [procs EXCEPT ![p] =
                         IF col \in existing
                           THEN EnsureFrom([st EXCEPT !.names = @ \cup {col}], st.col + 1)
                           ELSE [st EXCEPT !.at = "command"]]
                  /\ UNCHANGED <<pc, handles>>
    /\ UNCHANGED <<existing, indexes, provisioned>>
    /\ ProvFrame

\* create_collection(col), second half: the create command.  outcome is
\*   "ok"      the store creates the collection, or accepts the command for a
\*             collection that exists with the same options
\*   "exists"  the store answers NamespaceExists (OperationFailure)
\*   "denied"  the store refuses for another reason (OperationFailure)
\* OperationFailure is not CollectionInvalid: it leaves ensure and
\* _ensure_collections_and_indexes and is caught in __init__.
CreateCommand(p, outcome) ==
    /\ p \in DOMAIN procs
    /\ procs[p].at = "command"
    /\ LET st  == procs[p]
           col == CollectionOrder[st.col]
       IN  /\ outcome = "exists" => col \in existing
           /\ IF outcome = "ok"
                THEN /\ existing' = existing \cup {col}
                     /\ procs' = [procs EXCEPT ![p] =
                            EnsureFrom([st EXCEPT !.names = @ \cup {col}], st.col + 1)]
                     /\ UNCHANGED <<pc, handles>>
                ELSE /\ UNCHANGED existing
                     /\ procs' = [procs EXCEPT ![p] =
                            IF outcome = "exists"
                              THEN [SetupFailed(st) EXCEPT !.faults = st.faults]
                              ELSE SetupFailed(st)]
                     /\ Leave(p, FALSE)
    /\ UNCHANGED <<indexes, provisioned>>
    /\ ProvFrame

\* The last create_index call of the try block that call i stands in.
BlockEnd(i) ==
    LET b == IF IndexList[i].block = 4 THEN 3 ELSE IndexList[i].block
    IN  CHOOSE j \in 1..Len(IndexList) :
            /\ IndexList[j].block \in {b, IF b = 3 THEN 4 ELSE b}
            /\ \A k \in 1..Len(IndexList) :
                   IndexList[k].block \in {b, IF b = 3 THEN 4 ELSE b} => k <= j

\* After call i: the next call, or _cache_collections after the last one.
IndexFrom(st, i) ==
    IF i > Len(IndexList) THEN [st EXCEPT !.at = "cache", !.idx = i]
    ELSE [st EXCEPT !.idx = i]

\* One create_index call.  A call that raises is caught by the except of its
\* try block: the warning is logged and the calls left in the block are not
\* made.  A call that succeeds leaves the index in the store (and the
\* collection, which the store creates when it is missing).
CreateIndex(p, fault) ==
    /\ p \in DOMAIN procs
    /\ procs[p].at = "index"
    /\ LET st == procs[p]
           i  == st.idx
           c  == IndexList[i]
           s1 == [st EXCEPT !.attempted = @ \cup {i}]
       IN  IF fault
             THEN /\ procs' = [procs EXCEPT ![p] =
                         IndexFrom([s1 EXCEPT !.failed = @ \cup {i},
                                              !.logged = @ \cup {c.block},
                                              !.faults = @ + 1],
                                   BlockEnd(i) + 1)]
                  /\ UNCHANGED <<existing, indexes>>
             ELSE /\ procs' = [procs EXCEPT ![p] = IndexFrom(s1, i + 1)]
                  /\ indexes' = indexes \cup {StoredIndex(c)}
                  /\ existing' = existing \cup {c.coll}
    /\ UNCHANGED <<pc, handles, provisioned>>
    /\ ProvFrame

\* self._cache_collections() and the end of the try in __init__.
CacheCollections(p) ==
    /\ p \in DOMAIN procs
    /\ procs[p].at = "cache"
    /\ procs' = [procs EXCEPT ![p] = [@ EXCEPT !.at = "done", !.cached = TRUE]]
    /\ Leave(p, TRUE)
    /\ UNCHANGED <<existing, indexes, provisioned>>
    /\ ProvFrame

InitStore ==
    /\ sensors_data = {}
    /\ images_data = {}
    /\ notifications = {}
    /\ calendar_events = {}
    /\ blogs = {}
    /\ calc_records = {}
    /\ thoughts = {}

\* The fields as __init__ sets them before connecting.
Init ==
    /\ pc = "connect"
    /\ max_retries \in RetryChoices
    /\ wait_seconds \in WaitChoices
    /\ attempt = 0
    /\ nFailed = 0
    /\ nSleeps = 0
    /\ slept = 0
    /\ connectedAt = 0
    /\ client = "None"
    /\ db = "None"
    /\ handles = NoHandles
    /\ provisioned = FALSE
    /\ InitStore
    /\ InitExt
    /\ now = <<2024, 1, 25, 0>>
    /\ ret = NoRet

----------------------------------------------------------------------------
(* Values: instants, their ISO-8601 rendering, python string order *)

\* The configured default owner, cfg.current_user.
current_user == "chamika"

Min(a, b) == IF a < b THEN a ELSE b

\* An instant is <<year, month, day, millisecond of the day>>, in UTC (the
\* client is tz_aware and the store keeps milliseconds).
InstantLess(a, b) ==
    \/ a[1] < b[1]
    \/ a[1] = b[1] /\ a[2] < b[2]
    \/ a[1] = b[1] /\ a[2] = b[2] /\ a[3] < b[3]
    \/ a[1] = b[1] /\ a[2] = b[2] /\ a[3] = b[3] /\ a[4] < b[4]

Pow10(k) == IF k = 0 THEN 1 ELSE IF k = 1 THEN 10 ELSE IF k = 2 THEN 100
            ELSE IF k = 3 THEN 1000 ELSE IF k = 4 THEN 10000 ELSE 100000

\* n as w decimal digits, as character codes ("0" is 48).
Digits(n, w) == [i \in 1..w |-> 48 + ((n \div Pow10(w - i)) % 10)]

\* datetime.isoformat() of a tz-aware UTC datetime, as a sequence of character
\* codes: YYYY-MM-DDTHH:MM:SS[.ffffff]+00:00.  The fraction is left out when
\* the microsecond field is 0.
isoformat(t) ==
    LET ms  == t[4]
        hh  == ms \div 3600000
        mi  == (ms \div 60000) % 60
        ss  == (ms \div 1000) % 60
        us  == (ms % 1000) * 1000
        frac == IF us = 0 THEN <<>> ELSE <<46>> \o Digits(us, 6)
    IN  Digits(t[1], 4) \o <<45>> \o Digits(t[2], 2) \o <<45>> \o Digits(t[3], 2)
        \o <<84>> \o Digits(hh, 2) \o <<58>> \o Digits(mi, 2) \o <<58>> \o Digits(ss, 2)
        \o frac \o <<43, 48, 48, 58, 48, 48>>

\* Python's < on str: by code point at the first place the two differ; a
\* proper prefix is smaller.
StrLess(a, b) ==
    LET n    == Min(Len(a), Len(b))
        diff == {i \in 1..n : a[i] # b[i]}
    IN  IF diff = {} THEN Len(a) < Len(b)
        ELSE LET k == CHOOSE i \in diff : \A j \in diff : i <= j
             IN  a[k] < b[k]

----------------------------------------------------------------------------
(* The store's find(...).sort(field, DESCENDING).limit(n) *)

\* Every order of the documents of S that is descending in createdAt; the
\* store leaves the order of equal keys open.
RECURSIVE DescOrders(_)
DescOrders(S) ==
    IF S = {} THEN {<<>>}
    ELSE LET tops == {d \in S : \A e \in S : ~InstantLess(d.createdAt, e.createdAt)}
         IN  UNION {{<<d>> \o r : r \in DescOrders(S \ {d})} : d \in tops}

\* cursor.limit(n): the first n documents; a limit of 0 means no limit.
Limit(seq, n) == IF n = 0 THEN seq ELSE SubSeq(seq, 1, Min(n, Len(seq)))

\* What list(coll.find({"user": user}).sort("createdAt", DESCENDING).limit(n))
\* can return.
FindByUser(coll, user, n) ==
    {Limit(o, n) : o \in DescOrders({d \in coll : d.user = user})}

----------------------------------------------------------------------------
(* get_history: merge of the two telemetry collections *)

\* The common shape a sensor document is converted to.
SensorItem(d) ==
    [id |-> d._id, type |-> "sensor", status |-> d.status,
     createdAt |-> isoformat(d.createdAt)]

\* The common shape an image document is converted to.
ImageItem(d) ==
    [id |-> d._id, type |-> "image", status |-> d.status,
     createdAt |-> isoformat(d.createdAt)]

\* The sort key of items.sort: x.get("createdAt") or "".
SortKey(x) == x.createdAt

\* Where list.sort(reverse=True) puts x among the already sorted items: after
\* every item whose key is not smaller (the sort is stable).
RECURSIVE InsertDesc(_, _)
InsertDesc(sorted, x) ==
    IF sorted = <<>> THEN <<x>>
    ELSE IF StrLess(SortKey(Head(sorted)), SortKey(x))
         THEN <<x>> \o sorted
         ELSE <<Head(sorted)>> \o InsertDesc(Tail(sorted), x)

\* items.sort(key=..., reverse=True)
RECURSIVE SortItemsFrom(_, _)
SortItemsFrom(done, rest) ==
    IF rest = <<>> THEN done
    ELSE SortItemsFrom(InsertDesc(done, Head(rest)), Tail(rest))

\* Mutant of SortItems: the concatenation is not sorted again.
SortItemsSkipped(items) == items

SortItems(items) == SortItemsFrom(<<>>, items)

\* items[:limit] for limit >= 0
Slice(items, limit) == SubSeq(items, 1, Min(limit, Len(items)))

\* The body of get_history once both queries have answered.
MergeHistory(sens, imgs, limit) ==
    LET items == [i \in 1..Len(sens) |-> SensorItem(sens[i])]
                 \o [i \in 1..Len(imgs) |-> ImageItem(imgs[i])]
    IN  Slice(SortItems(items), limit)

get_history(user, limit, fails) ==
    /\ pc = "ready"
    /\ IF db = "None"
         THEN ret' = Ret("get_history", <<user, limit>>, "list", <<>>, FALSE, 0)
         ELSE IF fails
         THEN ret' = Ret("get_history", <<user, limit>>, "list", <<>>, FALSE, 1)
         ELSE \E sens \in FindByUser(sensors_data, user, limit),
                 imgs \in FindByUser(images_data, user, limit) :
                 ret' = Ret("get_history", <<user, limit>>, "list",
                            MergeHistory(sens, imgs, limit), FALSE, 2)
    /\ UNCHANGED <<connVars, extVars, storeVars, now>>

----------------------------------------------------------------------------
(* The clock *)

\* datetime.now(timezone.utc)
utcnow == now

\* Time passes: the clock moves to a later instant t.
Tick(t) ==
    /\ pc = "ready"
    /\ InstantLess(now, t)
    /\ now' = t
    /\ UNCHANGED <<connVars, extVars, storeVars, ret>>

----------------------------------------------------------------------------
(* Identifiers *)

IdLen == 2      \* hex digits of an ObjectId string (24 in bson)

HexChars == (48..57) \cup (97..102) \cup (65..70)

\* str.lower() on one character code
LowerChar(c) == IF c \in 65..90 THEN c + 32 ELSE c

\* bson's ObjectId(s) for a str: the 12 bytes the hex digits spell, modelled
\* as the lower-case digit string; anything else raises InvalidId.
ObjectIdValid(s) == Len(s) = IdLen /\ \A i \in 1..Len(s) : s[i] \in HexChars

\* A variant that never raises: every string is taken for an identifier.
_oidUnchecked(s) == [i \in 1..Len(s) |-> LowerChar(s[i])]

\* A variant that reads the digits from the right.
_oidReversed(s) ==
    IF ObjectIdValid(s) THEN [i \in 1..Len(s) |-> LowerChar(s[Len(s) + 1 - i])] ELSE NoneT

\* _oid: ObjectId(s), or None when it raises.
_oid(s) == IF ObjectIdValid(s) THEN [i \in 1..Len(s) |-> LowerChar(s[i])] ELSE NoneT

\* The identifiers the driver can generate, as their str() rendering.
OidChars == {48, 97}
Oids == {s \in [1..IdLen -> OidChars] : TRUE}

UsedOids == {d._id : d \in blogs \cup calendar_events}

\* Documents of the collections that are never looked up by identifier get
\* the token <<collection, content, copy number>> as their _id: an injective
\* naming of the opaque identifiers the driver generates.
TokenId(coll, name, content) ==
    <<name, content, Cardinality({d \in coll : d._id[2] = content})>>

\* A variant that keeps the argument as it is.
OrDefaultKept(x, default) == x

\* `x or default` on an optional string argument
OrDefault(x, default) == IF x = None \/ x = "" THEN default ELSE x

----------------------------------------------------------------------------
(* Record writers *)

\* Every writer: handle check, build the document, insert_one inside
\* try/except; a store error is logged and None returned.
\* A variant of the writers' answer that issues the insert a second time when
\* the first one fails.
InsertResultRetried(op, arg, present, fails, id) ==
    IF ~present THEN Ret(op, arg, "None", None, FALSE, 0)
    ELSE IF fails THEN Ret(op, arg, "None", None, FALSE, 2)
    ELSE Ret(op, arg, "id", id, FALSE, 1)

\* The argument given for a numeric field: a number, or a str that spells no
\* number.
Num(n) == <<"num", n>>

Text(s) == <<"str", s>>

\* float(v) / int(v): the number itself; on a str that spells no number the
\* conversion raises ValueError.
FloatRaises(v) == v[1] # "num"

float(v) == v[2]

InsertResult(op, arg, present, fails, id) ==
    IF ~present THEN Ret(op, arg, "None", None, FALSE, 0)
    ELSE IF fails THEN Ret(op, arg, "None", None, FALSE, 1)
    ELSE Ret(op, arg, "id", id, FALSE, 1)

\* The document is built before the try: float(nh3) raising leaves the call.
insert_sensor_result(user, nh3, status, created_at, fails) ==
    LET owner == OrDefault(user, current_user)
        ca    == IF created_at = NoneT THEN utcnow ELSE created_at
        id    == TokenId(sensors_data, "sensors_data", <<owner, ca, status, float(nh3)>>)
        doc   == [_id |-> id, user |-> owner, nh3 |-> float(nh3), status |-> status,
                  createdAt |-> ca]
        arg   == <<user, created_at, nh3>>
    IN  /\ pc = "ready"
        /\ IF handles["sensors_data"] /\ FloatRaises(nh3)
             THEN /\ ret' = Raise("insert_sensor_result", arg, 0)
                  /\ sensors_data' = sensors_data
             ELSE /\ ret' = InsertResult("insert_sensor_result", arg,
                                         handles["sensors_data"], fails, id)
                  /\ sensors_data' = IF handles["sensors_data"] /\ ~fails
                                       THEN sensors_data \cup {doc} ELSE sensors_data
        /\ UNCHANGED <<images_data, notifications, calendar_events, blogs,
                       calc_records, thoughts>>
        /\ UNCHANGED <<connVars, extVars, now>>

insert_image_result(user, status, created_at, fails) ==
    LET owner == OrDefault(user, current_user)
        ca    == IF created_at = NoneT THEN utcnow ELSE created_at
        id    == TokenId(images_data, "images_data", <<owner, ca, status>>)
        doc   == [_id |-> id, user |-> owner, status |-> status, createdAt |-> ca]
    IN  /\ pc = "ready"
        /\ ret' = InsertResult("insert_image_result", <<user, created_at>>,
                               handles["images_data"], fails, id)
        /\ images_data' = IF handles["images_data"] /\ ~fails
                            THEN images_data \cup {doc} ELSE images_data
        /\ UNCHANGED <<sensors_data, notifications, calendar_events, blogs,
                       calc_records, thoughts>>
        /\ UNCHANGED <<connVars, extVars, now>>

insert_notification(message, fails) ==
    LET id  == TokenId(notifications, "notifications", <<current_user, utcnow, message>>)
        doc == [_id |-> id, user |-> current_user, message |-> message,
                createdAt |-> utcnow]
    IN  /\ pc = "ready"
        /\ ret' = InsertResult("insert_notification", <<message>>,
                               handles["notifications"], fails, id)
        /\ notifications' = IF handles["notifications"] /\ ~fails
                              THEN notifications \cup {doc} ELSE notifications
        /\ UNCHANGED <<sensors_data, images_data, calendar_events, blogs,
                       calc_records, thoughts>>
        /\ UNCHANGED <<connVars, extVars, now>>

\* A variant that keeps only the newest thought.
add_thought_replacing(text, user, created_at, fails) ==
    LET owner == OrDefault(user, current_user)
        ca    == IF created_at = NoneT THEN utcnow ELSE created_at
        id    == TokenId(thoughts, "thoughts", <<owner, ca, text>>)
        doc   == [_id |-> id, user |-> owner, text |-> text, createdAt |-> ca]
    IN  /\ pc = "ready"
        /\ ret' = InsertResult("add_thought", <<user, created_at>>,
                               handles["thoughts"], fails, id)
        /\ thoughts' = IF handles["thoughts"] /\ ~fails THEN {doc} ELSE thoughts
        /\ UNCHANGED <<sensors_data, images_data, notifications, calendar_events,
                       blogs, calc_records>>
        /\ UNCHANGED <<connVars, extVars, now>>

add_thought(text, user, created_at, fails) ==
    LET owner == OrDefault(user, current_user)
        ca    == IF created_at = NoneT THEN utcnow ELSE created_at
        id    == TokenId(thoughts, "thoughts", <<owner, ca, text>>)
        doc   == [_id |-> id, user |-> owner, text |-> text, createdAt |-> ca]
    IN  /\ pc = "ready"
        /\ ret' = InsertResult("add_thought", <<user, created_at>>,
                               handles["thoughts"], fails, id)
        /\ thoughts' = IF handles["thoughts"] /\ ~fails
                         THEN thoughts \cup {doc} ELSE thoughts
        /\ UNCHANGED <<sensors_data, images_data, notifications, calendar_events,
                       blogs, calc_records>>
        /\ UNCHANGED <<connVars, extVars, now>>

\* The driver generates the ObjectId: any identifier not in use.
add_calendar_event(title, start, oid, fails) ==
    LET doc == [_id |-> oid, user |-> current_user, title |-> title,
                start |-> start, createdAt |-> utcnow]
    IN  /\ pc = "ready"
        /\ oid \in Oids \ UsedOids
        /\ ret' = InsertResult("add_calendar_event", <<title, start>>,
                               handles["calendar_events"], fails, oid)
        /\ calendar_events' = IF handles["calendar_events"] /\ ~fails
                                THEN calendar_events \cup {doc} ELSE calendar_events
        /\ UNCHANGED <<sensors_data, images_data, notifications, blogs,
                       calc_records, thoughts>>
        /\ UNCHANGED <<connVars, extVars, now>>

add_blog(title, created_at, oid, fails) ==
    LET ca  == IF created_at = NoneT THEN utcnow ELSE created_at
        doc == [_id |-> oid, user |-> current_user, title |-> title, createdAt |-> ca]
    IN  /\ pc = "ready"
        /\ oid \in Oids \ UsedOids
        /\ ret' = InsertResult("add_blog", <<title, created_at>>,
                               handles["blogs"], fails, oid)
        /\ blogs' = IF handles["blogs"] /\ ~fails THEN blogs \cup {doc} ELSE blogs
        /\ UNCHANGED <<sensors_data, images_data, notifications, calendar_events,
                       calc_records, thoughts>>
        /\ UNCHANGED <<connVars, extVars, now>>

IsLeap(y) == y % 4 = 0 /\ (y % 100 # 0 \/ y % 400 = 0)

\* The lengths of the months, from the calendar.
DaysInMonth(y, m) ==
    IF m = 2 THEN (IF IsLeap(y) THEN 29 ELSE 28)
    ELSE IF m \in {4, 6, 9, 11} THEN 30 ELSE 31

\* The argument date_iso is the text of a date and time, given by the four
\* numbers it spells (year, month, day, millisecond of the day), or the empty
\* string <<>>.  fromisoformat accepts it when the numbers name an instant of
\* the calendar, and raises ValueError otherwise.
IsoValid(date_iso) ==
    /\ Len(date_iso) = 4
    /\ date_iso[1] \in 1..9999
    /\ date_iso[2] \in 1..12
    /\ date_iso[3] \in 1..DaysInMonth(date_iso[1], date_iso[2])
    /\ date_iso[4] \in 0..86399999

\* A variant that takes the text for the instant whatever it spells.
ParseDateUnchecked(date_iso) == date_iso

\* datetime.fromisoformat(date_iso.replace("Z", "+00:00")), or now when it
\* raises.
ParseDate(date_iso) == IF IsoValid(date_iso) THEN date_iso ELSE utcnow

\* A variant that stores the kind as given.
CoerceKindKept(kind) == kind

\* kind if kind in ("entry", "bonus") else "entry"
CoerceKind(kind) == IF kind \in {"entry", "bonus"} THEN kind ELSE "entry"

add_calc_record(user, food, value, kind, date_iso, fails) ==
    LET owner == OrDefault(user, current_user)
        when  == ParseDate(date_iso)
        k     == CoerceKind(kind)
        id    == TokenId(calc_records, "calc_records",
                         <<owner, food, float(value), k, when>>)
        doc   == [_id |-> id, user |-> owner, food |-> food, value |-> float(value),
                  kind |-> k, date |-> when, createdAt |-> utcnow]
        arg   == <<user, food, value, kind, date_iso>>
    IN  /\ pc = "ready"
        /\ IF handles["calc_records"] /\ FloatRaises(value)
             THEN /\ ret' = Raise("add_calc_record", arg, 0)
                  /\ calc_records' = calc_records
             ELSE /\ ret' = InsertResult("add_calc_record", arg,
                                         handles["calc_records"], fails, id)
                  /\ calc_records' = IF handles["calc_records"] /\ ~fails
                                       THEN calc_records \cup {doc} ELSE calc_records
        /\ UNCHANGED <<sensors_data, images_data, notifications, calendar_events,
                       blogs, thoughts>>
        /\ UNCHANGED <<connVars, extVars, now>>

----------------------------------------------------------------------------
(* Readers of the telemetry collections *)

\* Mutant of ReadFrame: a reader that finds the object degraded connects again.
ReadFrameReconnecting ==
    /\ client' = "MongoClient"
    /\ db' = "Database"
    /\ handles' = AllHandles
    /\ UNCHANGED <<pc, max_retries, wait_seconds, attempt, nFailed, nSleeps, slept,
                   connectedAt, provisioned>>
    /\ UNCHANGED <<extVars, storeVars, now>>

ReadFrame == UNCHANGED <<connVars, extVars, storeVars, now>>

CountStatus(coll, user, status) ==
    Cardinality({d \in coll : d.user = user /\ d.status = status})

Stats(total, fresh, spoiled) ==
    [totalScans |-> total, freshCount |-> fresh, spoiledCount |-> spoiled]

get_stats(user, fails) ==
    LET fresh   == CountStatus(sensors_data, user, "Fresh")
                   + CountStatus(images_data, user, "Fresh")
        spoiled == CountStatus(sensors_data, user, "Spoiled")
                   + CountStatus(images_data, user, "Spoiled")
    IN  /\ pc = "ready"
        /\ ret' = IF db = "None" THEN Ret("get_stats", <<user>>, "stats", Stats(0, 0, 0), FALSE, 0)
                  ELSE IF fails THEN Ret("get_stats", <<user>>, "stats", Stats(0, 0, 0), FALSE, 1)
                  ELSE Ret("get_stats", <<user>>, "stats",
                           Stats(fresh + spoiled, fresh, spoiled), FALSE, 4)
        /\ ReadFrame

\* coll.find_one({"user": user}, sort=[("createdAt", DESCENDING)]): the
\* documents it can return, or None when the user has none.
FindLast(coll, user) ==
    LET mine == {d \in coll : d.user = user}
    IN  {d \in mine : \A e \in mine : ~InstantLess(d.createdAt, e.createdAt)}

\* Mutant of FindOneResult: the handle is used without the None check.
FindOneResultUnguarded(op, user, present, fails, found) ==
    IF ~present THEN {Raise(op, <<user>>, 0)}
    ELSE IF fails \/ found = {} THEN {Ret(op, <<user>>, "None", None, FALSE, 1)}
    ELSE {Ret(op, <<user>>, "doc", d, FALSE, 1) : d \in found}

FindOneResult(op, user, present, fails, found) ==
    IF ~present THEN {Ret(op, <<user>>, "None", None, FALSE, 0)}
    ELSE IF fails \/ found = {} THEN {Ret(op, <<user>>, "None", None, FALSE, 1)}
    ELSE {Ret(op, <<user>>, "doc", d, FALSE, 1) : d \in found}

get_last_sensor(user, fails) ==
    /\ pc = "ready"
    /\ ret' \in FindOneResult("get_last_sensor", user, handles["sensors_data"], fails,
                              FindLast(sensors_data, user))
    /\ ReadFrame

get_last_image(user, fails) ==
    /\ pc = "ready"
    /\ ret' \in FindOneResult("get_last_image", user, handles["images_data"], fails,
                              FindLast(images_data, user))
    /\ ReadFrame

\* projection={"nh3": 1, "createdAt": 1}
ProjectNh3(d) == [_id |-> d._id, nh3 |-> d.nh3, createdAt |-> d.createdAt]

get_live_nh3(user, fails) ==
    /\ pc = "ready"
    /\ ret' \in FindOneResult("get_live_nh3", user, handles["sensors_data"], fails,
                              {ProjectNh3(d) : d \in FindLast(sensors_data, user)})
    /\ ReadFrame

ThoughtItem(d) == [id |-> d._id, text |-> d.text, createdAt |-> isoformat(d.createdAt)]

list_thoughts(user, limit, fails) ==
    LET owner == OrDefault(user, current_user)
    IN  /\ pc = "ready"
        /\ IF ~handles["thoughts"] \/ db = "None"
             THEN ret' = Ret("list_thoughts", <<user, limit>>, "list", <<>>, FALSE, 0)
             ELSE IF fails
             THEN ret' = Ret("list_thoughts", <<user, limit>>, "list", <<>>, FALSE, 1)
             ELSE \E cur \in FindByUser(thoughts, owner, limit) :
                     ret' = Ret("list_thoughts", <<user, limit>>, "list",
                                [i \in 1..Len(cur) |-> ThoughtItem(cur[i])], FALSE, 1)
        /\ ReadFrame

----------------------------------------------------------------------------
(* Calendar events *)

\* The store's order on strings is the order of their code points.
RECURSIVE DescOrdersByStart(_)
DescOrdersByStart(S) ==
    IF S = {} THEN {<<>>}
    ELSE LET tops == {d \in S : \A e \in S : ~StrLess(d.start, e.start)}
         IN  UNION {{<<d>> \o r : r \in DescOrdersByStart(S \ {d})} : d \in tops}

StrLeq(a, b) == a = b \/ StrLess(a, b)

\* A variant of the filter whose upper bound is exclusive.
CalendarMatchExclusive(d, start_from, end_to) ==
    /\ d.user = current_user
    /\ (start_from = NoneT \/ StrLeq(start_from, d.start))
    /\ (end_to = NoneT \/ StrLess(d.start, end_to))

\* The filter list_calendar_events builds: owner, and on start $gte / $lte for
\* the bounds that are given (None and "" both count as not given).
CalendarMatch(d, start_from, end_to) ==
    /\ d.user = current_user
    /\ (start_from = NoneT \/ StrLeq(start_from, d.start))
    /\ (end_to = NoneT \/ StrLeq(d.start, end_to))

CalendarItem(d) ==
    [id |-> d._id, title |-> d.title, start |-> d.start, createdAt |-> d.createdAt]

list_calendar_events(start_from, end_to, limit, fails) ==
    LET arg == <<start_from, end_to, limit>>
        hit == {d \in calendar_events : CalendarMatch(d, start_from, end_to)}
    IN  /\ pc = "ready"
        /\ IF ~handles["calendar_events"]
             THEN ret' = Ret("list_calendar_events", arg, "list", <<>>, FALSE, 0)
             ELSE IF fails
             THEN ret' = Ret("list_calendar_events", arg, "list", <<>>, FALSE, 1)
             ELSE \E o \in DescOrdersByStart(hit) :
                     ret' = Ret("list_calendar_events", arg, "list",
                                [i \in 1..Len(Limit(o, limit)) |-> CalendarItem(Limit(o, limit)[i])],
                                FALSE, 1)
        /\ ReadFrame

\* delete_one(filter): one matching document goes, if there is one.
DeleteOne(op, arg, coll, present, oid, fails, match) ==
    IF ~present \/ oid = NoneT THEN {<<Ret(op, arg, "bool", FALSE, FALSE, 0), coll>>}
    ELSE IF fails \/ match = {} THEN {<<Ret(op, arg, "bool", FALSE, FALSE, 1), coll>>}
    ELSE {<<Ret(op, arg, "bool", TRUE, FALSE, 1), coll \ {d}>> : d \in match}

\* A variant that deletes by identifier alone.
delete_calendar_event_any_owner(event_id, fails) ==
    LET oid   == _oid(event_id)
        match == IF oid = NoneT THEN {}
                 ELSE {d \in calendar_events : d._id = oid}
    IN  /\ pc = "ready"
        /\ \E r \in DeleteOne("delete_calendar_event", <<event_id>>, calendar_events,
                              handles["calendar_events"], oid, fails, match) :
              /\ ret' = r[1]
              /\ calendar_events' = r[2]
        /\ UNCHANGED <<sensors_data, images_data, notifications, blogs,
                       calc_records, thoughts>>
        /\ UNCHANGED <<connVars, extVars, now>>

delete_calendar_event(event_id, fails) ==
    LET oid   == _oid(event_id)
        match == IF oid = NoneT THEN {}
                 ELSE {d \in calendar_events : d._id = oid /\ d.user = current_user}
    IN  /\ pc = "ready"
        /\ \E r \in DeleteOne("delete_calendar_event", <<event_id>>, calendar_events,
                              handles["calendar_events"], oid, fails, match) :
              /\ ret' = r[1]
              /\ calendar_events' = r[2]
        /\ UNCHANGED <<sensors_data, images_data, notifications, blogs,
                       calc_records, thoughts>>
        /\ UNCHANGED <<connVars, extVars, now>>

----------------------------------------------------------------------------
(* Blogs *)

\* A legacy post has no owner field.
Absent == "<absent>"

BlogItem(d) == [_id |-> d._id, title |-> d.title, createdAt |-> isoformat(d.createdAt)]

list_blogs(limit, fails) ==
    LET hit == {d \in blogs : d.user = current_user \/ d.user = Absent}
    IN  /\ pc = "ready"
        /\ IF ~handles["blogs"]
             THEN ret' = Ret("list_blogs", <<limit>>, "list", <<>>, FALSE, 0)
             ELSE IF fails
             THEN ret' = Ret("list_blogs", <<limit>>, "list", <<>>, FALSE, 1)
             ELSE \E o \in DescOrders(hit) :
                     ret' = Ret("list_blogs", <<limit>>, "list",
                                [i \in 1..Len(Limit(o, limit)) |-> BlogItem(Limit(o, limit)[i])],
                                FALSE, 1)
        /\ ReadFrame

get_blog(blog_id, fails) ==
    LET oid   == _oid(blog_id)
        match == IF oid = NoneT THEN {} ELSE {d \in blogs : d._id = oid}
    IN  /\ pc = "ready"
        /\ ret' \in
             IF ~handles["blogs"] \/ oid = NoneT
               THEN {Ret("get_blog", <<blog_id>>, "None", None, FALSE, 0)}
             ELSE IF fails \/ match = {}
               THEN {Ret("get_blog", <<blog_id>>, "None", None, FALSE, 1)}
             ELSE {Ret("get_blog", <<blog_id>>, "doc", BlogItem(d), FALSE, 1) : d \in match}
        /\ ReadFrame

delete_blog(blog_id, fails) ==
    LET oid   == _oid(blog_id)
        match == IF oid = NoneT THEN {} ELSE {d \in blogs : d._id = oid}
    IN  /\ pc = "ready"
        /\ \E r \in DeleteOne("delete_blog", <<blog_id>>, blogs, handles["blogs"],
                              oid, fails, match) :
              /\ ret' = r[1]
              /\ blogs' = r[2]
        /\ UNCHANGED <<sensors_data, images_data, notifications, calendar_events,
                       calc_records, thoughts>>
        /\ UNCHANGED <<connVars, extVars, now>>

----------------------------------------------------------------------------
(* calc_summary: the month-to-date ledger summary *)

\* now.replace(day=1, hour=0, minute=0, second=0, microsecond=0)
MonthStart(t) == <<t[1], t[2], 1, 0>>

\* A variant whose December rolls over to January of the same year.
NextMonthStartSameYear(ms) ==
    IF ms[2] = 12 THEN <<ms[1], 1, ms[3], ms[4]>>
    ELSE <<ms[1], ms[2] + 1, ms[3], ms[4]>>

\* The first day of the next month; month 12 rolls over to month 1 of year + 1.
NextMonthStart(ms) ==
    IF ms[2] = 12 THEN <<ms[1] + 1, 1, ms[3], ms[4]>>
    ELSE <<ms[1], ms[2] + 1, ms[3], ms[4]>>

\* datetime.date.toordinal: days since 0001-01-01, that day being 1.
DaysBeforeYear(y) ==
    LET p == y - 1 IN p * 365 + (p \div 4) - (p \div 100) + (p \div 400)

DaysBeforeMonth(y, m) ==
    <<0, 31, 59, 90, 120, 151, 181, 212, 243, 273, 304, 334>>[m]
    + (IF m > 2 /\ IsLeap(y) THEN 1 ELSE 0)

toordinal(t) == DaysBeforeYear(t[1]) + DaysBeforeMonth(t[1], t[2]) + t[3]

\* (next_month_start.date() - now.date()).days
RemainingDays(nms, t) == toordinal(nms) - toordinal(t)

\* Variants of the filter: an upper bound that includes the first instant of
\* the next month, and an upper bound at the instant of the call.
InWindowInclusive(d, user, month_start, next_month_start) ==
    /\ d.user = user
    /\ ~InstantLess(d.date, month_start)
    /\ ~InstantLess(next_month_start, d.date)

InWindowToDate(d, user, month_start, next_month_start) ==
    /\ d.user = user
    /\ ~InstantLess(d.date, month_start)
    /\ InstantLess(d.date, utcnow)

\* The filter of the ledger query:
\* {"user": user, "date": {"$gte": month_start, "$lt": next_month_start}}
InWindow(d, user, month_start, next_month_start) ==
    /\ d.user = user
    /\ ~InstantLess(d.date, month_start)
    /\ InstantLess(d.date, next_month_start)

\* Every order of the documents of S that is descending in date.
RECURSIVE DescOrdersByDate(_)
DescOrdersByDate(S) ==
    IF S = {} THEN {<<>>}
    ELSE LET tops == {d \in S : \A e \in S : ~InstantLess(d.date, e.date)}
         IN  UNION {{<<d>> \o r : r \in DescOrdersByDate(S \ {d})} : d \in tops}

\* The accumulation loop over the cursor: bonus_total takes the documents
\* whose kind is "bonus", entry_total all the others.
RECURSIVE BonusTotal(_)
BonusTotal(cur) ==
    IF cur = <<>> THEN 0
    ELSE (IF Head(cur).kind = "bonus" THEN Head(cur).value ELSE 0) + BonusTotal(Tail(cur))

RECURSIVE EntryTotal(_)
EntryTotal(cur) ==
    IF cur = <<>> THEN 0
    ELSE (IF Head(cur).kind = "bonus" THEN 0 ELSE Head(cur).value) + EntryTotal(Tail(cur))

\* round(x, 2) on an amount in thousandths: to the nearest hundredth, a tie to
\* the even hundredth.
Round2(x) ==
    LET q == x \div 10
        r == x % 10
    IN  IF r < 5 THEN q * 10
        ELSE IF r > 5 THEN (q + 1) * 10
        ELSE IF q % 2 = 0 THEN q * 10 ELSE (q + 1) * 10

Summary(food, cost, bonus, net, updated, start, days) ==
    [latestFood |-> food, currentTotalCost |-> cost, totalBonus |-> bonus,
     netAmount |-> net, lastUpdatedDate |-> updated, monthStartDate |-> start,
     billPrintedDate |-> None, remainingDays |-> days]

\* A variant that takes the bonus total off the entry total.
SummaryOfBonusSubtracted(cur, month_start, next_month_start, t) ==
    LET entry_total == EntryTotal(cur)
        bonus_total == BonusTotal(cur)
        net         == entry_total - bonus_total
    IN  Summary(IF cur = <<>> THEN None ELSE Head(cur).food,
                Round2(entry_total), Round2(bonus_total), Round2(net),
                IF cur = <<>> THEN NoneT ELSE isoformat(Head(cur).date),
                isoformat(month_start),
                RemainingDays(next_month_start, t))

\* The summary returned once the cursor has been read to its end.
SummaryOf(cur, month_start, next_month_start, t) ==
    LET entry_total == EntryTotal(cur)
        bonus_total == BonusTotal(cur)
        net         == entry_total + bonus_total
    IN  Summary(IF cur = <<>> THEN None ELSE Head(cur).food,
                Round2(entry_total), Round2(bonus_total), Round2(net),
                IF cur = <<>> THEN NoneT ELSE isoformat(Head(cur).date),
                isoformat(month_start),
                RemainingDays(next_month_start, t))

\* What the model records about a call of calc_summary: the owner, the
\* instant of the call, the window of the query, how the store answered
\* ("ok", "find" when find(...).sort(...) raised, "read" when reading the
\* cursor raised), and - for the comparison of repeated calls - the instant and
\* totals of the directly preceding operation when that was an answered
\* calc_summary of the same owner in the same calendar month (else <<>>).
SummaryAnswered(r) ==
    r.op = "calc_summary" /\ r.tag = "summary" /\ r.calls = 2

Preceding(user, t) ==
    IF /\ SummaryAnswered(ret)
       /\ ret.arg.user = user
       /\ ret.arg.at[1] = t[1] /\ ret.arg.at[2] = t[2]
    THEN <<ret.arg.at, ret.val.currentTotalCost, ret.val.totalBonus, ret.val.netAmount>>
    ELSE <<>>

CallOf(user, t, month_start, next_month_start, store) ==
    [user |-> user, at |-> t, month_start |-> month_start,
     next_month_start |-> next_month_start, store |-> store,
     preceding |-> Preceding(user, t)]

\* calc_summary(user).  findFails: find(...).sort(...) raises (inside the try);
\* readFails: the store fails while the cursor is being read (the for loop is
\* outside the try, so the exception leaves calc_summary).
calc_summary(user, findFails, readFails) ==
    LET month_start      == MonthStart(utcnow)
        next_month_start == NextMonthStart(month_start)
        hit == {d \in calc_records : InWindow(d, user, month_start, next_month_start)}
    IN  /\ pc = "ready"
        /\ IF ~handles["calc_records"]
             THEN ret' = Ret("calc_summary", CallOf(user, utcnow, NoneT, NoneT, "none"),
                             "summary", Summary(None, 0, 0, 0, NoneT, NoneT, None), FALSE, 0)
             ELSE IF findFails
             THEN ret' = Ret("calc_summary",
                             CallOf(user, utcnow, month_start, next_month_start, "find"),
                             "summary",
                             Summary(None, 0, 0, 0, NoneT, isoformat(month_start),
                                     RemainingDays(next_month_start, utcnow)),
                             FALSE, 1)
             ELSE IF readFails
             THEN ret' = Raise("calc_summary",
                               CallOf(user, utcnow, month_start, next_month_start, "read"), 2)
             ELSE \E cur \in DescOrdersByDate(hit) :
                     ret' = Ret("calc_summary",
                                CallOf(user, utcnow, month_start, next_month_start, "ok"),
                                "summary",
                                SummaryOf(cur, month_start, next_month_start, utcnow),
                                FALSE, 2)
        /\ ReadFrame

----------------------------------------------------------------------------
(* Specification Spec: construction, then the operations on the object *)

MaxDocs == 1        \* documents the store holds at most under Spec

DocCount ==
    Cardinality(sensors_data) + Cardinality(images_data) + Cardinality(notifications)
    + Cardinality(calendar_events) + Cardinality(blogs) + Cardinality(calc_records)
    + Cardinality(thoughts)

\* The identifier the driver generates next.
NextOid == CHOOSE o \in Oids : o \notin UsedOids \/ UsedOids = Oids

\* "0..0" parses to an identifier, "g" does not.
SomeIdStrings == {[i \in 1..IdLen |-> 48], <<103>>}

Construct ==
    \/ \E o \in AttemptOutcomes : ConnectAttempt(o)
    \/ Sleep
    \/ ConnectExhausted
    \/ \E r \in BOOLEAN : Setup(r)

Writers ==
    \/ \E u \in {None, "u1"}, f \in BOOLEAN :
          insert_sensor_result(u, Num(120), "Fresh", NoneT, f) /\ DocCount' <= MaxDocs
    \/ \E u \in {None, "u1"}, f \in BOOLEAN :
          insert_image_result(u, "Spoiled", NoneT, f) /\ DocCount' <= MaxDocs
    \/ \E f \in BOOLEAN : insert_notification("m", f) /\ DocCount' <= MaxDocs
    \/ \E u \in {None, "u1"}, f \in BOOLEAN :
          add_thought("t", u, NoneT, f) /\ DocCount' <= MaxDocs
    \/ \E f \in BOOLEAN :
          add_calendar_event("e", <<49>>, NextOid, f) /\ DocCount' <= MaxDocs
    \/ \E f \in BOOLEAN : add_blog("b", NoneT, NextOid, f) /\ DocCount' <= MaxDocs
    \/ \E u \in {None, "u1"}, k \in {"bonus", "x"}, f \in BOOLEAN :
          add_calc_record(u, "rice", Num(20000), k, <<>>, f) /\ DocCount' <= MaxDocs

Readers ==
    \/ \E u \in {current_user, "u1"}, f \in BOOLEAN : get_stats(u, f)
    \/ \E u \in {current_user, "u1"}, f \in BOOLEAN : get_last_sensor(u, f)
    \/ \E u \in {current_user, "u1"}, f \in BOOLEAN : get_last_image(u, f)
    \/ \E u \in {current_user, "u1"}, f \in BOOLEAN : get_live_nh3(u, f)
    \/ \E u \in {current_user, "u1"}, f \in BOOLEAN : get_history(u, 1, f)
    \/ \E u \in {None, "u1"}, f \in BOOLEAN : list_thoughts(u, 1, f)
    \/ \E f \in BOOLEAN : list_calendar_events(NoneT, NoneT, 1, f)
    \/ \E f \in BOOLEAN : list_blogs(1, f)
    \/ \E s \in SomeIdStrings, f \in BOOLEAN : get_blog(s, f)
    \/ \E u \in {current_user, "u1"}, ff \in BOOLEAN, fi \in BOOLEAN : calc_summary(u, ff, fi)

Deleters ==
    \/ \E s \in SomeIdStrings, f \in BOOLEAN : delete_calendar_event(s, f)
    \/ \E s \in SomeIdStrings, f \in BOOLEAN : delete_blog(s, f)

Next == Construct \/ Writers \/ Readers \/ Deleters

Spec == Init /\ [][Next]_vars

----------------------------------------------------------------------------
(* Claims about construction and degraded mode, checked under Spec *)

ReadOps ==
    {"get_stats", "get_last_sensor", "get_last_image", "get_live_nh3", "get_history",
     "list_thoughts", "list_calendar_events", "list_blogs", "get_blog", "calc_summary"}

WriteOps ==
    {"insert_sensor_result", "insert_image_result", "insert_notification",
     "add_thought", "add_calendar_event", "add_blog", "add_calc_record"}

DeleteOps == {"delete_calendar_event", "delete_blog"}

\* The empty / zero-valued / None shape of each operation.
IsEmptyShape(r) ==
    CASE r.op = "get_stats" -> r.tag = "stats" /\ r.val = Stats(0, 0, 0)
      [] r.op \in {"get_last_sensor", "get_last_image", "get_live_nh3", "get_blog"} ->
            r.tag = "None"
      [] r.op \in {"get_history", "list_thoughts", "list_calendar_events", "list_blogs"} ->
            r.tag = "list" /\ r.val = <<>>
      [] r.op = "calc_summary" ->
            /\ r.tag = "summary"
            /\ r.val.latestFood = None /\ r.val.lastUpdatedDate = NoneT
            /\ r.val.currentTotalCost = 0 /\ r.val.totalBonus = 0 /\ r.val.netAmount = 0
      [] r.op \in WriteOps -> r.tag = "None"
      [] r.op \in DeleteOps -> r.tag = "bool" /\ r.val = FALSE
      [] OTHER -> FALSE

Degraded == pc = "ready" /\ connectedAt = 0

\* C1: when every connection attempt failed, the handle and the seven
\* collection handles are absent, and whatever operation is called returns
\* its empty shape (reads), None (writes) or False (deletes), raises nothing
\* and issues no store call.
C1_DegradedOperations ==
    Degraded =>
        /\ db = "None"
        /\ handles = NoHandles
        /\ ret.op # "none" =>
              /\ ret.op \in ReadOps \cup WriteOps \cup DeleteOps
              /\ IsEmptyShape(ret)
              /\ ~ret.raised
              /\ ret.calls = 0

C1_Witness ==
    /\ Degraded
    /\ max_retries = InitMaxRetries
    /\ ret.op = "get_last_sensor"
    /\ ret.tag = "None"

\* C2: the attempts are made one after another, none after the attempt that
\* succeeded, never more than max_retries; every failed attempt is followed by
\* exactly one sleep of wait_seconds before anything else happens.
C2_RetryDiscipline ==
    /\ attempt <= max_retries
    /\ nFailed <= max_retries
    /\ connectedAt # 0 => attempt = connectedAt /\ pc \in {"setup", "ready"}
    /\ nFailed = IF connectedAt # 0 THEN attempt - 1 ELSE attempt
    /\ nSleeps = IF pc = "sleep" THEN nFailed - 1 ELSE nFailed
    /\ slept = nSleeps * wait_seconds

C2_Witness ==
    /\ pc = "ready"
    /\ max_retries = InitMaxRetries
    /\ connectedAt = 3
    /\ nSleeps = 2
    /\ slept = 2 * InitWaitSeconds

\* C3: construction never stops inside itself (no exception leaves it), makes
\* at most max_retries attempts, and once it has returned the handle is
\* present iff one of the attempts succeeded; when all failed, client and db
\* are both absent and provisioning was skipped.
C3_Construction ==
    /\ pc \in {"connect", "sleep", "setup", "ready"}
    /\ pc # "ready" => ENABLED Construct
    /\ attempt <= max_retries
    /\ pc = "ready" =>
          /\ db # "None" <=> connectedAt \in 1..max_retries
          /\ db # "None" => client # "None"
          /\ connectedAt = 0 =>
                /\ nFailed = max_retries
                /\ client = "None" /\ db = "None"
                /\ ~provisioned
                /\ handles = NoHandles

C3_Witness ==
    /\ pc = "ready"
    /\ max_retries = InitMaxRetries
    /\ nFailed = InitMaxRetries
    /\ db = "None"

----------------------------------------------------------------------------
(* Specification SpecHistory: telemetry writes and the merged history *)

\* The object after a construction whose first attempt succeeded.
ReadyObject ==
    /\ pc = "ready"
    /\ max_retries = InitMaxRetries
    /\ wait_seconds = InitWaitSeconds
    /\ attempt = 1
    /\ nFailed = 0
    /\ nSleeps = 0
    /\ slept = 0
    /\ connectedAt = 1
    /\ client = "MongoClient"
    /\ db = "Database"
    /\ handles = AllHandles
    /\ provisioned = TRUE
    /\ InitStore
    /\ ret = NoRet

InitReady == ReadyObject /\ InitExt

MaxTelemetry == 3   \* sensor and image documents held at most
MaxLimit == 3       \* the cap of get_history ranges over 0..MaxLimit

HistUsers == {"u1", "u2"}

\* The same second with and without a fraction, and the last millisecond of
\* the year before.
HistInstants ==
    { <<2024, 1, 15, 0>>, <<2024, 1, 15, 500>>, <<2023, 12, 31, 86399999>> }

InitHistory == InitReady /\ now = <<2024, 1, 25, 0>>

NextHistory ==
    \/ \E u \in HistUsers, t \in HistInstants :
          /\ insert_sensor_result(u, Num(120), "Fresh", t, FALSE)
          /\ Cardinality(sensors_data') + Cardinality(images_data) <= MaxTelemetry
    \/ \E u \in HistUsers, t \in HistInstants :
          /\ insert_image_result(u, "Fresh", t, FALSE)
          /\ Cardinality(sensors_data) + Cardinality(images_data') <= MaxTelemetry
    \/ \E u \in HistUsers, l \in 0..MaxLimit, f \in BOOLEAN : get_history(u, l, f)

SpecHistory == InitHistory /\ [][NextHistory]_vars

\* The telemetry records of an owner, of both kinds.
OwnRecords(user) ==
    {[type |-> "sensor", id |-> d._id, at |-> d.createdAt] :
        d \in {x \in sensors_data : x.user = user}}
    \cup
    {[type |-> "image", id |-> d._id, at |-> d.createdAt] :
        d \in {x \in images_data : x.user = user}}

\* The record an item of the history stands for.
RecordOf(user, item) ==
    CHOOSE r \in OwnRecords(user) : r.type = item.type /\ r.id = item.id

DistinctTimestamps(user) ==
    \A r1, r2 \in OwnRecords(user) : r1.at = r2.at => r1 = r2

\* A call of get_history whose two queries were both answered.
HistoryAnswered == ret.op = "get_history" /\ ret.calls = 2

\* C4: for an owner whose records have distinct timestamps, get_history(owner,
\* L) returns min(L, s + i) items; they stand for the min(L, s + i) most recent
\* records of the owner over both collections, in strictly descending order of
\* timestamp.
C4_HistoryMerge ==
    (HistoryAnswered /\ DistinctTimestamps(ret.arg[1])) =>
        LET user  == ret.arg[1]
            limit == ret.arg[2]
            items == ret.val
            own   == OwnRecords(user)
        IN  /\ Len(items) = Min(limit, Cardinality(own))
            /\ \A k \in 1..Len(items) :
                  \E r \in own : r.type = items[k].type /\ r.id = items[k].id
            /\ \A j, k \in 1..Len(items) :
                  j < k => InstantLess(RecordOf(user, items[k]).at,
                                       RecordOf(user, items[j]).at)
            /\ \A r \in own :
                  (\A k \in 1..Len(items) : RecordOf(user, items[k]) # r) =>
                      \A k \in 1..Len(items) :
                          InstantLess(r.at, RecordOf(user, items[k]).at)

\* A truncated history with an image ahead of a sensor reading: the image
\* carries a fraction of the second the reading was taken in.
C4_Witness ==
    /\ HistoryAnswered
    /\ DistinctTimestamps(ret.arg[1])
    /\ ret.arg[2] = 2
    /\ Cardinality(OwnRecords(ret.arg[1])) = 3
    /\ Len(ret.val) = 2
    /\ ret.val[1].type = "image"
    /\ ret.val[2].type = "sensor"
    /\ RecordOf(ret.arg[1], ret.val[1]).at = <<2024, 1, 15, 500>>
    /\ RecordOf(ret.arg[1], ret.val[2]).at = <<2024, 1, 15, 0>>

----------------------------------------------------------------------------
(* Specification SpecCalc: the ledger and its month-to-date summary on a
   connected instance.  Amounts are thousandths of the currency unit, so a
   stored value may carry a third decimal digit. *)

MaxLedger == 3      \* ledger documents held at most

CalcUsers == {"u1", "u2"}

\* The arguments of add_calc_record: <<user, food, value, kind, date_iso>>.
\* Three records of u1 in and around January 2024, two sub-cent amounts at the
\* first instant of that month, a record at the last millisecond of the month
\* before with a kind that is neither "entry" nor "bonus", and a record of u2.
CalcInputs ==
    { <<"u1", "rice", 20000, "entry", <<2024, 1, 15, 0>>>>,
      <<"u1", "milk", -5000, "bonus", <<2024, 1, 20, 0>>>>,
      <<"u1", "fish", 99000, "entry", <<2024, 2, 1, 0>>>>,
      <<"u1", "salt", 4, "entry", <<2024, 1, 1, 0>>>>,
      <<"u1", "salt", 4, "bonus", <<2024, 1, 1, 0>>>>,
      <<"u1", "tea", 7000, "refund", <<2023, 12, 31, 86399999>>>>,
      <<"u2", "rice", 20000, "entry", <<2024, 1, 15, 0>>>> }

\* The clock starts on 18 January or on 10 February 2024 and may advance to
\* 25 January.
CalcStarts == { <<2024, 1, 18, 43200000>>, <<2024, 2, 10, 0>> }

CalcLater == { <<2024, 1, 25, 0>> }

InitCalc == InitReady /\ now \in CalcStarts

NextCalc ==
    \/ \E a \in CalcInputs :
          /\ add_calc_record(a[1], a[2], Num(a[3]), a[4], a[5], FALSE)
          /\ Cardinality(calc_records') <= MaxLedger
    \/ \E u \in CalcUsers, findFails \in BOOLEAN, readFails \in BOOLEAN :
          calc_summary(u, findFails, readFails)
    \/ \E t \in CalcLater : Tick(t)

SpecCalc == InitCalc /\ [][NextCalc]_vars

\* The sum of the values of a set of ledger documents.
RECURSIVE SumValues(_)
SumValues(S) ==
    IF S = {} THEN 0
    ELSE LET d == CHOOSE e \in S : TRUE IN d.value + SumValues(S \ {d})

\* The documents of the owner dated in the calendar month of instant t.
OfMonth(user, t) ==
    {d \in calc_records : d.user = user /\ d.date[1] = t[1] /\ d.date[2] = t[2]}

WholeCents(S) == \A d \in S : d.value % 10 = 0

\* The three records of the example: 20.0 entry on 15 January, -5.0 bonus on
\* 20 January, 99.0 entry on 1 February, for u1.
ExampleLedger ==
    /\ Cardinality(calc_records) = 3
    /\ \E d \in calc_records :
          d.user = "u1" /\ d.kind = "entry" /\ d.value = 20000 /\ d.date = <<2024, 1, 15, 0>>
    /\ \E d \in calc_records :
          d.user = "u1" /\ d.kind = "bonus" /\ d.value = -5000 /\ d.date = <<2024, 1, 20, 0>>
    /\ \E d \in calc_records :
          d.user = "u1" /\ d.kind = "entry" /\ d.value = 99000 /\ d.date = <<2024, 2, 1, 0>>

\* C5: when the ledger query is answered, currentTotalCost is the sum, rounded
\* to two decimals at the output, of the values of exactly the owner's records
\* of kind "entry" dated in the calendar month of the call (from the first
\* instant of the month inclusive to the first instant of the next month
\* exclusive), and totalBonus is the same sum over the records of kind
\* "bonus"; on whole-cent values the rounding changes nothing; the example
\* ledger evaluated in January 2024 gives 20.0 and -5.0.
C5_WindowTotals ==
    SummaryAnswered(ret) =>
        LET own     == OfMonth(ret.arg.user, ret.arg.at)
            entries == {d \in own : d.kind = "entry"}
            bonuses == {d \in own : d.kind = "bonus"}
        IN  /\ ret.val.currentTotalCost = Round2(SumValues(entries))
            /\ ret.val.totalBonus = Round2(SumValues(bonuses))
            /\ WholeCents(entries) => ret.val.currentTotalCost = SumValues(entries)
            /\ WholeCents(bonuses) => ret.val.totalBonus = SumValues(bonuses)
            /\ (ExampleLedger /\ ret.arg.user = "u1" /\ ret.arg.at[2] = 1)
                  => /\ ret.val.currentTotalCost = 20000
                     /\ ret.val.totalBonus = -5000
                     /\ ret.val.netAmount = 15000

C5_Witness ==
    /\ SummaryAnswered(ret)
    /\ ExampleLedger
    /\ ret.arg.user = "u1"
    /\ ret.arg.at = <<2024, 1, 25, 0>>
    /\ ret.val.currentTotalCost = 20000
    /\ ret.val.totalBonus = -5000

\* The statement of C7 as written: the returned netAmount equals the returned
\* currentTotalCost plus the returned totalBonus.  It fails for an entry of
\* 0.004 and a bonus of 0.004 in the window: the figures returned are 0.0, 0.0
\* and 0.01.
C7_NetIsSumOfReturned ==
    SummaryAnswered(ret) =>
        ret.val.netAmount = ret.val.currentTotalCost + ret.val.totalBonus

Abs(x) == IF x < 0 THEN -x ELSE x

\* C7 (amended): netAmount is the unrounded entry total plus the unrounded
\* bonus total - a plain sum, a negative bonus lowering it - rounded to two
\* decimals at the output; it equals currentTotalCost + totalBonus when every
\* value in the window is a whole number of cents, and otherwise differs from
\* that sum by at most 0.01.
C7_NetOfUnroundedTotals ==
    SummaryAnswered(ret) =>
        LET own     == OfMonth(ret.arg.user, ret.arg.at)
            entries == {d \in own : d.kind = "entry"}
            bonuses == {d \in own : d.kind = "bonus"}
            sum     == ret.val.currentTotalCost + ret.val.totalBonus
        IN  /\ ret.val.netAmount = Round2(SumValues(entries) + SumValues(bonuses))
            /\ WholeCents(own) => ret.val.netAmount = sum
            /\ Abs(ret.val.netAmount - sum) <= 10
            /\ (ExampleLedger /\ ret.arg.user = "u1" /\ ret.arg.at[2] = 1)
                  => ret.val.netAmount = 15000

\* An entry and a negative bonus in the window, and sub-cent amounts whose
\* returned figures do not add up.
C7_Witness ==
    /\ SummaryAnswered(ret)
    /\ ret.arg.user = "u1"
    /\ \E d \in OfMonth("u1", ret.arg.at) : d.kind = "bonus" /\ d.value < 0
    /\ \E d \in OfMonth("u1", ret.arg.at) : d.kind = "entry" /\ d.value % 10 # 0
    /\ ret.val.netAmount # ret.val.currentTotalCost + ret.val.totalBonus

\* C8: calc_summary does not change the ledger, and a call that directly
\* follows an answered call for the same owner in the same calendar month, the
\* ledger being what it was, returns the same currentTotalCost, totalBonus and
\* netAmount, whatever the instant inside the month.
C8_RepeatedSummary ==
    /\ [](SummaryAnswered(ret) /\ ret.arg.preceding # <<>>
            => /\ ret.val.currentTotalCost = ret.arg.preceding[2]
               /\ ret.val.totalBonus = ret.arg.preceding[3]
               /\ ret.val.netAmount = ret.arg.preceding[4])
    /\ [][ret'.op = "calc_summary" /\ ret' # ret => calc_records' = calc_records]_vars

\* A second call later in the month, with a ledger record dated between the
\* two calls.
C8_Witness ==
    /\ SummaryAnswered(ret)
    /\ ret.arg.preceding # <<>>
    /\ InstantLess(ret.arg.preceding[1], ret.arg.at)
    /\ \E d \in calc_records :
          /\ d.user = ret.arg.user
          /\ InstantLess(ret.arg.preceding[1], d.date)
          /\ InstantLess(d.date, ret.arg.at)
    /\ ret.val.netAmount # 0

\* The statement of C9 as written: if the ledger query fails at any point,
\* calc_summary returns the summary with all totals 0, latestFood and
\* lastUpdatedDate null, monthStartDate and remainingDays still filled in, and
\* raises nothing.  It fails when the store fails while the cursor is read.
C9_QueryFailureContained ==
    (ret.op = "calc_summary" /\ ret.arg.store \in {"find", "read"}) =>
        /\ ~ret.raised
        /\ ret.tag = "summary"
        /\ ret.val.currentTotalCost = 0
        /\ ret.val.totalBonus = 0
        /\ ret.val.netAmount = 0
        /\ ret.val.latestFood = None
        /\ ret.val.lastUpdatedDate = NoneT
        /\ ret.val.monthStartDate = isoformat(MonthStart(ret.arg.at))
        /\ ret.val.remainingDays =
              RemainingDays(NextMonthStart(MonthStart(ret.arg.at)), ret.arg.at)

----------------------------------------------------------------------------
(* Specification SpecMonth: calc_summary while the clock runs through three
   years, one of them a leap year and one a century year that is not. *)

MonthYears == {2023, 2024, 2100}

\* In every month the first instant, noon of the twentieth and the last
\* millisecond.
MonthInstants ==
    UNION { { <<y, m, 1, 0>>, <<y, m, 20, 43200000>>, <<y, m, DaysInMonth(y, m), 86399999>> }
            : y \in MonthYears, m \in 1..12 }

FirstInstant == CHOOSE t \in MonthInstants : \A u \in MonthInstants : ~InstantLess(u, t)

\* The instant of MonthInstants that follows t, if there is one.
NextInstant(t) ==
    LET later == {u \in MonthInstants : InstantLess(t, u)}
    IN  {u \in later : \A w \in later : ~InstantLess(w, u)}

InitMonth == InitReady /\ now = FirstInstant

NextMonth ==
    \/ \E t \in NextInstant(now) : Tick(t)
    \/ \E u \in CalcUsers, findFails \in BOOLEAN, readFails \in BOOLEAN :
          calc_summary(u, findFails, readFails)

SpecMonth == InitMonth /\ [][NextMonth]_vars

\* C6: at every instant of evaluation the window of calc_summary starts at the
\* first instant of the current calendar month and ends, exclusively, at the
\* first instant of the next one, December rolling over to January of the
\* following year; remainingDays is the number of days from today's date to
\* the date of the window's end, and monthStartDate is the window's start.
\* Evaluated on 2024-12-20 the window is 2024-12-01 .. 2025-01-01 and
\* remainingDays is 12.
C6_MonthWindow ==
    (ret.op = "calc_summary" /\ ret.arg.store # "none") =>
        LET t == ret.arg.at
            y == t[1]
            m == t[2]
        IN  /\ ret.arg.month_start = <<y, m, 1, 0>>
            /\ ret.arg.next_month_start =
                  IF m = 12 THEN <<y + 1, 1, 1, 0>> ELSE <<y, m + 1, 1, 0>>
            /\ ret.tag = "summary" =>
                  /\ ret.val.remainingDays = DaysInMonth(y, m) - t[3] + 1
                  /\ ret.val.monthStartDate = isoformat(<<y, m, 1, 0>>)
            /\ (ret.tag = "summary" /\ y = 2024 /\ m = 12 /\ t[3] = 20) =>
                  /\ ret.arg.month_start = <<2024, 12, 1, 0>>
                  /\ ret.arg.next_month_start = <<2025, 1, 1, 0>>
                  /\ ret.val.remainingDays = 12

C6_Witness ==
    /\ SummaryAnswered(ret)
    /\ ret.arg.at[1] = 2024 /\ ret.arg.at[2] = 12 /\ ret.arg.at[3] = 20
    /\ ret.arg.next_month_start = <<2025, 1, 1, 0>>
    /\ ret.val.remainingDays = 12

----------------------------------------------------------------------------
(* Specification SpecIds: posts and calendar events looked up and deleted by
   identifier strings, well-formed and malformed. *)

MaxIdDocs == 2      \* posts and events held at most

\* Every identifier the driver can generate, one of them in upper case, and
\* strings that do not parse: the empty string, one digit short, one digit
\* long, and the right length with a letter that is no hex digit.
IdStrings ==
    Oids \cup { <<>>,
                [i \in 1..IdLen |-> 65],
                [i \in 1..(IdLen - 1) |-> 48],
                [i \in 1..(IdLen + 1) |-> 48],
                [i \in 1..IdLen |-> 103] }

InitIds == InitReady /\ now = <<2024, 1, 25, 0>>

NextIds ==
    \/ \E o \in Oids \ UsedOids :
          /\ add_blog("b", NoneT, o, FALSE)
          /\ Cardinality(blogs') + Cardinality(calendar_events) <= MaxIdDocs
    \/ \E o \in Oids \ UsedOids :
          /\ add_calendar_event("e", <<49>>, o, FALSE)
          /\ Cardinality(blogs) + Cardinality(calendar_events') <= MaxIdDocs
    \/ \E s \in IdStrings, f \in BOOLEAN : get_blog(s, f)
    \/ \E s \in IdStrings, f \in BOOLEAN : delete_blog(s, f)
    \/ \E s \in IdStrings, f \in BOOLEAN : delete_calendar_event(s, f)

SpecIds == InitIds /\ [][NextIds]_vars

IdOps == {"get_blog", "delete_blog", "delete_calendar_event"}

\* C10: for an identifier string that does not parse into a store identifier,
\* get_blog returns None, delete_blog and delete_calendar_event return False,
\* none raises, none issues a store call, and no stored record changes.
C10_MalformedIdentifier ==
    /\ []((ret.op \in IdOps /\ ~ObjectIdValid(ret.arg[1])) =>
            /\ ~ret.raised
            /\ ret.calls = 0
            /\ ret.op = "get_blog" => ret.tag = "None"
            /\ ret.op # "get_blog" => (ret.tag = "bool" /\ ret.val = FALSE))
    /\ [][(ret'.op \in IdOps /\ ~ObjectIdValid(ret'.arg[1])) => UNCHANGED storeVars]_vars

\* A delete and a lookup with a string of the right length that holds a
\* letter outside the hex digits, a post and an event being stored.
C10_Witness ==
    /\ ret.op \in IdOps
    /\ Len(ret.arg[1]) = IdLen
    /\ ~ObjectIdValid(ret.arg[1])
    /\ blogs # {}
    /\ calendar_events # {}

----------------------------------------------------------------------------
(* Writers: failures of the insert, owners and timestamps, the ledger's kind
   and date *)

\* A writer whose insert was issued and brought no identifier back.
WriterFailed(r) == r.op \in WriteOps /\ r.calls >= 1 /\ r.tag # "id"

\* C11: a writer whose insert fails returns None, raises nothing, has issued
\* the insert exactly once and has stored nothing; no writer ever issues more
\* than one store call (only the connection is retried).
C11_InsertFailure ==
    /\ [](ret.op \in WriteOps => ret.calls <= 1 /\ ~ret.raised)
    /\ [](WriterFailed(ret) =>
            /\ ret.tag = "None"
            /\ ret.val = None
            /\ ret.calls = 1)
    /\ [][WriterFailed(ret') => UNCHANGED storeVars]_vars

\* A connected instance on which the insert of a ledger record failed.
C11_Witness ==
    /\ pc = "ready"
    /\ handles = AllHandles
    /\ ret.op = "add_calc_record"
    /\ WriterFailed(ret)
    /\ ret.tag = "None"
    /\ DocCount = 0

\* Specification SpecWrites: the seven writers on a connected instance, with
\* and without an owner, with and without an explicit timestamp, the clock
\* standing at one of two instants.

MaxWritten == 3     \* documents written at most

WriteStarts == { <<2024, 1, 25, 0>>, <<2024, 3, 1, 500>> }

\* An explicit created_at, different from both instants of the clock.
ExplicitInstant == <<2023, 12, 31, 86399999>>

\* A number, and the str "abc".
NumberArgs == {Num(120), Text(<<97, 98, 99>>)}

InitWrites == InitReady /\ now \in WriteStarts

NextWrites ==
    \/ \E u \in {None, "u1"}, ca \in {NoneT, ExplicitInstant}, v \in NumberArgs :
          insert_sensor_result(u, v, "Fresh", ca, FALSE) /\ DocCount' <= MaxWritten
    \/ \E u \in {"", "u1"}, ca \in {NoneT, ExplicitInstant} :
          insert_image_result(u, "Spoiled", ca, FALSE) /\ DocCount' <= MaxWritten
    \/ insert_notification("m", FALSE) /\ DocCount' <= MaxWritten
    \/ \E u \in {None, "u1"}, ca \in {NoneT, ExplicitInstant} :
          add_thought("t", u, ca, FALSE) /\ DocCount' <= MaxWritten
    \/ add_calendar_event("e", <<49>>, NextOid, FALSE) /\ DocCount' <= MaxWritten
    \/ \E ca \in {NoneT, ExplicitInstant} :
          add_blog("b", ca, NextOid, FALSE) /\ DocCount' <= MaxWritten
    \/ \E u \in {"", "u1"}, v \in NumberArgs :
          add_calc_record(u, "rice", v, "entry", <<2024, 1, 15, 0>>, FALSE)
          /\ DocCount' <= MaxWritten

SpecWrites == InitWrites /\ [][NextWrites]_vars

\* The collection a writer writes to.
WrittenBy(op) ==
    CASE op = "insert_sensor_result" -> sensors_data
      [] op = "insert_image_result" -> images_data
      [] op = "insert_notification" -> notifications
      [] op = "add_thought" -> thoughts
      [] op = "add_calendar_event" -> calendar_events
      [] op = "add_blog" -> blogs
      [] op = "add_calc_record" -> calc_records

OwnerAndTimestamp(S) == \A d \in S : d.user \notin {None, ""} /\ d.createdAt # NoneT

\* The owner and the timestamp the answered call r should have stored.
OwnerWanted(r) ==
    IF r.op \in {"insert_sensor_result", "insert_image_result", "add_thought",
                 "add_calc_record"} /\ r.arg[1] \notin {None, ""}
    THEN r.arg[1] ELSE current_user

CreatedAtWanted(r) ==
    IF r.op \in {"insert_sensor_result", "insert_image_result", "add_thought", "add_blog"}
       /\ r.arg[2] # NoneT
    THEN r.arg[2] ELSE now

\* C12: every stored record has an owner and a createdAt that are not null;
\* the record a writer has just stored carries the caller's owner when one
\* was given, else the configured default owner, and the explicit timestamp
\* when one was given, else the instant of the write.
C12_OwnerAndCreatedAt ==
    /\ OwnerAndTimestamp(sensors_data) /\ OwnerAndTimestamp(images_data)
    /\ OwnerAndTimestamp(notifications) /\ OwnerAndTimestamp(thoughts)
    /\ OwnerAndTimestamp(calendar_events) /\ OwnerAndTimestamp(blogs)
    /\ OwnerAndTimestamp(calc_records)
    /\ (ret.op \in WriteOps /\ ret.tag = "id") =>
          \E d \in WrittenBy(ret.op) :
              /\ d._id = ret.val
              /\ d.user = OwnerWanted(ret)
              /\ d.createdAt = CreatedAtWanted(ret)

\* Two records, one written without an owner and without a timestamp, one
\* with both.
C12_Witness ==
    /\ DocCount >= 2
    /\ \E d \in sensors_data : d.user = current_user /\ d.createdAt = now
    /\ ret.op = "add_thought" /\ ret.tag = "id"
    /\ ret.arg = <<"u1", ExplicitInstant>>
    /\ \E d \in thoughts : d.user = "u1" /\ d.createdAt = ExplicitInstant

\* C13: every stored ledger record has kind "entry" or "bonus"; a call of
\* add_calc_record with any other kind is not rejected: it returns an
\* identifier and the record is stored with kind "entry"; "entry" and "bonus"
\* are stored as given.
C13_LedgerKind ==
    /\ \A d \in calc_records : d.kind \in {"entry", "bonus"}
    /\ ret.op = "add_calc_record" =>
          /\ ~ret.raised
          /\ ret.tag = "id"
          /\ \E d \in calc_records :
                /\ d._id = ret.val
                /\ d.kind = IF ret.arg[4] \in {"entry", "bonus"} THEN ret.arg[4] ELSE "entry"

\* A record written with kind "refund", next to a bonus.
C13_Witness ==
    /\ ret.op = "add_calc_record"
    /\ ret.arg[4] = "refund"
    /\ ret.tag = "id"
    /\ \E d \in calc_records : d._id = ret.val /\ d.kind = "entry" /\ d.food = "tea"
    /\ \E d \in calc_records : d.kind = "bonus"

\* The statement of C14 as written: a writer given a numeric field that cannot
\* be converted to a number raises nothing: it falls back locally and either
\* stores the record or returns None.  It fails: float(nh3) and float(value)
\* are evaluated while the document is built, before the try.
C14_UncoercibleContained ==
    (/\ ret.op \in {"insert_sensor_result", "add_calc_record"}
     /\ handles = AllHandles
     /\ FloatRaises(ret.arg[3])) =>
        /\ ~ret.raised
        /\ ret.tag \in {"id", "None"}
        /\ ret.tag = "id" => \E d \in WrittenBy(ret.op) : d._id = ret.val

\* Specification SpecDates: ledger records written with dates that parse and
\* dates that do not, and summarised.

\* 15 January 2024, the empty string, 30 February and a thirteenth month.
DateArgs ==
    { <<2024, 1, 15, 0>>, <<>>, <<2024, 2, 30, 0>>, <<2024, 13, 1, 0>> }

InitDates == InitReady /\ now \in CalcStarts

NextDates ==
    \/ \E u \in CalcUsers, d \in DateArgs :
          /\ add_calc_record(u, "rice", Num(20000), "entry", d, FALSE)
          /\ Cardinality(calc_records') <= MaxLedger
    \/ \E u \in CalcUsers : calc_summary(u, FALSE, FALSE)
    \/ \E t \in CalcLater : Tick(t)

SpecDates == InitDates /\ [][NextDates]_vars

\* C15: add_calc_record with a date string that does not parse is not
\* rejected: it returns an identifier, and the record is stored with the
\* instant of the write as its effective date, which lies in the summary
\* window of the month of the write; a date that parses is stored as given.
C15_UnparsableDate ==
    ret.op = "add_calc_record" =>
        /\ ~ret.raised
        /\ ret.tag = "id"
        /\ \E d \in calc_records :
              /\ d._id = ret.val
              /\ IsoValid(ret.arg[5]) => d.date = ret.arg[5]
              /\ ~IsoValid(ret.arg[5]) =>
                    /\ d.date = d.createdAt
                    /\ InWindow(d, d.user, MonthStart(d.createdAt),
                                NextMonthStart(MonthStart(d.createdAt)))

\* A record written on 25 January with the date "30 February".
C15_Witness ==
    /\ ret.op = "add_calc_record"
    /\ ret.arg[5] = <<2024, 2, 30, 0>>
    /\ ret.tag = "id"
    /\ now = <<2024, 1, 25, 0>>
    /\ \E d \in calc_records : d._id = ret.val /\ d.date = now

----------------------------------------------------------------------------
(* The route handler thoughts_add (Notify_Alerts.py), the one caller of
   add_thought.  A text is the sequence of its character codes. *)

WordLimit == 60

Whitespace == {9, 10, 11, 12, 13, 32}

\* str.split(): the maximal runs of characters that are not whitespace, from
\* the positions where a run starts and the positions where one ends.
split(s) ==
    LET positions == [i \in 1..Len(s) |-> i]
        Starts(i) == s[i] \notin Whitespace /\ (i = 1 \/ s[i - 1] \in Whitespace)
        Ends(i)   == s[i] \notin Whitespace /\ (i = Len(s) \/ s[i + 1] \in Whitespace)
        from      == SelectSeq(positions, Starts)
        to        == SelectSeq(positions, Ends)
    IN  [k \in 1..Len(from) |-> SubSeq(s, from[k], to[k])]

\* str.strip(): without the whitespace at both ends.
strip(s) ==
    LET solid == {i \in 1..Len(s) : s[i] \notin Whitespace}
    IN  IF solid = {} THEN <<>>
        ELSE SubSeq(s, CHOOSE i \in solid : \A j \in solid : i <= j,
                       CHOOSE i \in solid : \A j \in solid : j <= i)

\* " ".join(words)
RECURSIVE join(_)
join(words) ==
    IF words = <<>> THEN <<>>
    ELSE IF Len(words) = 1 THEN words[1]
    ELSE words[1] \o <<32>> \o join(Tail(words))

\* A variant that stores the text whatever its length.
CapWordsNever(text) == text

\* if len(text.split()) > 60: text = " ".join(text.split()[:60])
CapWords(text) ==
    IF Len(split(text)) > WordLimit
    THEN join(SubSeq(split(text), 1, WordLimit))
    ELSE text

\* thoughts_add with the JSON body {"text": text}: a text that is missing or
\* blank is answered 400 (BadRequestError); otherwise the stripped and capped
\* text goes to add_thought(text=..., user=cfg.current_user) and the answer
\* is 201 with the identifier add_thought returned, None included.
thoughts_add(text, fails) ==
    LET stored == CapWords(strip(text))
        id     == TokenId(thoughts, "thoughts", <<current_user, utcnow, stored>>)
        doc    == [_id |-> id, user |-> current_user, text |-> stored,
                   createdAt |-> utcnow]
        r      == InsertResult("add_thought", <<current_user, NoneT>>,
                               handles["thoughts"], fails, id)
    IN  /\ pc = "ready"
        /\ IF strip(text) = <<>>
             THEN /\ ret' = Ret("thoughts_add", <<text>>, "400", <<"None", None>>, FALSE, 0)
                  /\ thoughts' = thoughts
             ELSE /\ ret' = Ret("thoughts_add", <<text>>, "201", <<r.tag, r.val>>,
                                FALSE, r.calls)
                  /\ thoughts' = IF handles["thoughts"] /\ ~fails
                                   THEN thoughts \cup {doc} ELSE thoughts
        /\ UNCHANGED <<sensors_data, images_data, notifications, calendar_events,
                       blogs, calc_records>>
        /\ UNCHANGED <<connVars, extVars, now>>

\* Specification SpecThoughts: notes of 1, 59, 60, 61 and 75 words, with
\* single and with irregular spacing, and blank texts.

MaxThoughts == 2    \* thoughts held at most

\* The i-th word: two letters, different for different i.
Word(i) == <<97 + (i % 26), 97 + (i \div 26)>>

\* k words, each followed by the separator, behind a leading space.
RECURSIVE Spaced(_, _)
Spaced(k, sep) == IF k = 0 THEN <<32>> ELSE Spaced(k - 1, sep) \o Word(k) \o sep

ThoughtTexts ==
    { join([i \in 1..k |-> Word(i)]) : k \in {1, 59, 60, 61, 75} }
    \cup { Spaced(k, <<32, 10>>) : k \in {0, 60, 61} }
    \cup { <<>> }

InitThoughts == InitReady /\ now = <<2024, 1, 25, 0>>

NextThoughts ==
    \/ \E t \in ThoughtTexts, f \in BOOLEAN :
          thoughts_add(t, f) /\ Cardinality(thoughts') <= MaxThoughts
    \/ \E f \in BOOLEAN : list_thoughts(current_user, 0, f)

SpecThoughts == InitThoughts /\ [][NextThoughts]_vars

MaxRound == 2       \* documents held at most

InitRound == InitReady /\ now \in WriteStarts

NextRound ==
    \/ insert_sensor_result(None, Num(120), "Fresh", NoneT, FALSE) /\ DocCount' <= MaxRound
    \/ insert_image_result("u1", "Spoiled", ExplicitInstant, FALSE) /\ DocCount' <= MaxRound
    \/ insert_notification("m", FALSE) /\ DocCount' <= MaxRound
    \/ add_thought("t", None, NoneT, FALSE) /\ DocCount' <= MaxRound
    \/ add_calendar_event("e", <<49>>, NextOid, FALSE) /\ DocCount' <= MaxRound
    \/ \E ca \in {NoneT, ExplicitInstant} :
          add_blog("b", ca, NextOid, FALSE) /\ DocCount' <= MaxRound
    \/ add_calc_record("u1", "rice", Num(20000), "entry", <<2024, 1, 15, 0>>, FALSE)
          /\ DocCount' <= MaxRound
    \/ \E s \in IdStrings : get_blog(s, FALSE)
    \/ \E s \in IdStrings : delete_blog(s, FALSE)

SpecRound == InitRound /\ [][NextRound]_vars

\* C17: the identifier a writer returns names exactly one stored document of
\* its collection, and that document has the owner and the createdAt that
\* were supplied (the default owner and the instant of the write when they
\* were not); the identifier add_blog returns parses back to the _id of the
\* post, and get_blog of an identifier string answers with the post of that
\* _id - its identifier, title and createdAt - exactly when such a post is
\* stored, so from add_blog until delete_blog removes it.
C17_InsertLookup ==
    /\ (ret.op \in WriteOps /\ ret.tag = "id") =>
          /\ Cardinality({d \in WrittenBy(ret.op) : d._id = ret.val}) = 1
          /\ \A d \in WrittenBy(ret.op) :
                d._id = ret.val =>
                    /\ d.user = OwnerWanted(ret)
                    /\ d.createdAt = CreatedAtWanted(ret)
    /\ (ret.op = "add_blog" /\ ret.tag = "id") =>
          /\ ObjectIdValid(ret.val)
          /\ \E d \in blogs : d._id = _oid(ret.val)
    /\ (ret.op = "get_blog" /\ ObjectIdValid(ret.arg[1])) =>
          LET found == {d \in blogs : d._id = _oid(ret.arg[1])}
          IN  /\ ret.tag = "doc" <=> found # {}
              /\ ret.tag = "None" <=> found = {}
              /\ ret.tag = "doc" =>
                    \E d \in found :
                        /\ ret.val._id = d._id
                        /\ ret.val.title = d.title
                        /\ ret.val.createdAt = isoformat(d.createdAt)

\* A post written with an explicit timestamp and found by get_blog.
C17_Witness ==
    /\ ret.op = "get_blog"
    /\ ret.tag = "doc"
    /\ ret.val.createdAt = isoformat(ExplicitInstant)
    /\ \E d \in blogs : d._id = ret.val._id /\ d.user = current_user
    /\ DocCount >= 2

----------------------------------------------------------------------------
(* Specification SpecCalendar: calendar events of the configured owner and of
   another owner, listed and deleted. *)

MaxEvents == 3      \* calendar events held at most
MaxCap == 2         \* the limit of list_calendar_events ranges over 1..MaxCap

\* The start markers "1", "10" and "2": as strings, "1" < "10" < "2".
StartMarkers == { <<49>>, <<49, 48>>, <<50>> }

RangeBounds == { NoneT, <<49, 48>> }

OtherOwner == "u2"

\* add_calendar_event run by an instance of the layer that is configured with
\* another owner (CURRENT_USER) on the same store: the event is stored, and
\* this instance gets no answer.
OtherOwnerEvent(start, oid) ==
    /\ pc = "ready"
    /\ oid \in Oids \ UsedOids
    /\ calendar_events' = calendar_events \cup
          {[_id |-> oid, user |-> OtherOwner, title |-> "e", start |-> start,
            createdAt |-> utcnow]}
    /\ ret' = NoRet
    /\ UNCHANGED <<sensors_data, images_data, notifications, blogs,
                   calc_records, thoughts>>
    /\ UNCHANGED <<connVars, extVars, now>>

InitCalendar == InitReady /\ now = <<2024, 1, 25, 0>>

NextCalendar ==
    \/ \E s \in StartMarkers :
          /\ add_calendar_event("e", s, NextOid, FALSE)
          /\ Cardinality(calendar_events') <= MaxEvents
    \/ /\ OtherOwnerEvent(<<49, 48>>, NextOid)
       /\ Cardinality(calendar_events') <= MaxEvents
    \/ \E s \in IdStrings : delete_calendar_event(s, FALSE)
    \/ \E a \in RangeBounds, b \in RangeBounds, l \in 1..MaxCap :
          list_calendar_events(a, b, l, FALSE)

SpecCalendar == InitCalendar /\ [][NextCalendar]_vars

\* The events a step removes, and the events delete_calendar_event(id) is to
\* look for.
Removed == calendar_events \ calendar_events'

Deletable(id) ==
    {d \in calendar_events :
        ObjectIdValid(id) /\ d._id = _oid(id) /\ d.user = current_user}

\* C18: a call of delete_calendar_event(id) removes the event whose
\* identifier is id and whose owner is the configured owner, if there is one,
\* and nothing else: at most one event goes, True is returned exactly when
\* one went, every other record - an event with that identifier of another
\* owner included - stays as it was; no other step removes an event.
C18_DeleteByOwnerAndId ==
    [][/\ Removed # {} => ret'.op = "delete_calendar_event"
       /\ (ret'.op = "delete_calendar_event"
           /\ (ret' # ret \/ calendar_events' # calendar_events)) =>
             /\ calendar_events' \subseteq calendar_events
             /\ Removed = Deletable(ret'.arg[1])
             /\ Cardinality(Removed) <= 1
             /\ ret'.tag = "bool"
             /\ ret'.val = (Removed # {})
             /\ UNCHANGED <<sensors_data, images_data, notifications, blogs,
                            calc_records, thoughts>>
      ]_vars

\* False was returned for the identifier of an event of another owner, which
\* is still stored, next to an event of the configured owner.
C18_Witness ==
    /\ ret.op = "delete_calendar_event"
    /\ ret.tag = "bool" /\ ret.val = FALSE
    /\ ret.calls = 1
    /\ \E d \in calendar_events : d._id = _oid(ret.arg[1]) /\ d.user = OtherOwner
    /\ \E d \in calendar_events : d.user = current_user

----------------------------------------------------------------------------
(* Specification SpecAppend: every operation of the layer on a connected
   instance - the seven writers, the readers and the two deletes. *)

MaxAppend == 2      \* documents held at most

InitAppend == InitReady /\ now = <<2024, 1, 25, 0>>

NextAppend ==
    \/ insert_sensor_result(None, Num(120), "Fresh", NoneT, FALSE) /\ DocCount' <= MaxAppend
    \/ insert_image_result(None, "Spoiled", NoneT, FALSE) /\ DocCount' <= MaxAppend
    \/ \E m \in {"m", "n"}, f \in BOOLEAN :
          insert_notification(m, f) /\ DocCount' <= MaxAppend
    \/ \E t \in {"t", "s"}, f \in BOOLEAN :
          add_thought(t, None, NoneT, f) /\ DocCount' <= MaxAppend
    \/ add_calendar_event("e", <<49>>, NextOid, FALSE) /\ DocCount' <= MaxAppend
    \/ add_blog("b", NoneT, NextOid, FALSE) /\ DocCount' <= MaxAppend
    \/ \E v \in {Num(20000), Num(-5000)}, f \in BOOLEAN :
          add_calc_record(None, "rice", v, "entry", <<>>, f) /\ DocCount' <= MaxAppend
    \/ Readers
    \/ Deleters

SpecAppend == InitAppend /\ [][NextAppend]_vars

\* C19: whatever operation of the layer runs, every notification, ledger
\* record and thought that is stored stays stored, unchanged: each of the
\* three collections only grows.
C19_AppendOnly ==
    [][/\ notifications \subseteq notifications'
       /\ calc_records \subseteq calc_records'
       /\ thoughts \subseteq thoughts'
      ]_vars

\* A second thought was written while the first one stayed.
C19_Witness ==
    /\ Cardinality(thoughts) = 2
    /\ ret.op = "add_thought" /\ ret.tag = "id"
    /\ \E d \in thoughts : d._id # ret.val

\* The events of the configured owner whose start marker lies between the
\* bounds that are given, both included.
InRange(start_from, end_to) ==
    {d \in calendar_events :
        /\ d.user = current_user
        /\ (start_from = <<>> \/ ~StrLess(d.start, start_from))
        /\ (end_to = <<>> \/ ~StrLess(end_to, d.start))}

\* C20: with a positive limit, list_calendar_events(start_from, end_to, limit)
\* returns events of the configured owner only, each with start_from <=
\* start <= end_to for the bounds that are given, in descending order of
\* start, min(limit, number of such events) of them, and no event left out
\* has a start above one that is returned.
C20_ListCalendar ==
    (ret.op = "list_calendar_events" /\ ret.arg[3] > 0) =>
        LET all   == InRange(ret.arg[1], ret.arg[2])
            items == ret.val
            ids   == {items[i].id : i \in 1..Len(items)}
        IN  /\ ret.tag = "list"
            /\ Len(items) = Min(ret.arg[3], Cardinality(all))
            /\ Cardinality(ids) = Len(items)
            /\ \A i \in 1..Len(items) :
                  \E d \in all : d._id = items[i].id /\ d.start = items[i].start
            /\ \A i \in 1..Len(items), j \in 1..Len(items) :
                  i < j => ~StrLess(items[i].start, items[j].start)
            /\ \A d \in all :
                  d._id \notin ids =>
                      \A i \in 1..Len(items) : ~StrLess(items[i].start, d.start)

\* The cap cuts the answer, an event lies on the lower bound, and an event of
\* another owner lies in the range.
C20_Witness ==
    /\ ret.op = "list_calendar_events"
    /\ ret.arg[1] # NoneT
    /\ Len(ret.val) = ret.arg[3]
    /\ Cardinality(InRange(ret.arg[1], ret.arg[2])) > ret.arg[3]
    /\ \E d \in calendar_events : d.user = current_user /\ d.start = ret.arg[1]
    /\ \E d \in calendar_events : d.user = OtherOwner /\ d.start = ret.arg[1]

----------------------------------------------------------------------------
(* Specification SpecProvision: one construction that connected, followed  *)
(* step by step through provisioning, with store calls that may fail       *)

MaxFaults == 2      \* store calls that fail during one provisioning
MaxProvWrites == 1  \* notifications written after the construction

\* What the store holds before the run: nothing, the leftovers of a run that
\* was interrupted, or everything an earlier run provisioned.
StartStores ==
    { <<{}, {}>>,
      <<{"sensors_data", "blogs"}, {StoredIndex(IndexList[1])}>>,
      <<CollectionNames, AllIndexes>> }

\* __init__ after _connect_with_retry returned from its first attempt.
InitConnected ==
    /\ pc = "setup"
    /\ max_retries = InitMaxRetries
    /\ wait_seconds = InitWaitSeconds
    /\ attempt = 1
    /\ nFailed = 0
    /\ nSleeps = 0
    /\ slept = 0
    /\ connectedAt = 1
    /\ client = "MongoClient"
    /\ db = "Database"
    /\ handles = NoHandles
    /\ provisioned = FALSE
    /\ InitStore
    /\ users = {}
    /\ reqs = <<>>
    /\ services = <<>>
    /\ restart_count = <<>>
    /\ restarts = <<>>
    /\ monitor = 0
    /\ now = <<2024, 1, 25, 0>>
    /\ ret = NoRet

InitProvision ==
    /\ InitConnected
    /\ \E s \in StartStores : existing = s[1] /\ indexes = s[2]
    /\ procs = [p \in {1} |-> ProcStart]

MayFail(p, fault) == fault => procs[p].faults < MaxFaults

NextProvision ==
    \/ \E f \in BOOLEAN : MayFail(1, f) /\ ListNames(1, f)
    \/ \E f \in BOOLEAN : MayFail(1, f) /\ CreateCheck(1, f)
    \/ \E o \in {"ok", "exists", "denied"} : MayFail(1, o = "denied") /\ CreateCommand(1, o)
    \/ \E f \in BOOLEAN : MayFail(1, f) /\ CreateIndex(1, f)
    \/ CacheCollections(1)
    \/ /\ Cardinality(notifications) < MaxProvWrites
       /\ insert_notification("spoiled", FALSE)

SpecProvision == InitProvision /\ [][NextProvision]_vars

\* C21 (as the specification states it): when a create_index call has failed,
\* the failure was logged and every other create_index call of the
\* provisioning list was made all the same.
C21_IndexFaultIsolated ==
    \A p \in DOMAIN procs :
        (procs[p].at \in {"cache", "done"} /\ procs[p].failed # {}) =>
            /\ \A i \in procs[p].failed : IndexList[i].block \in procs[p].logged
            /\ procs[p].attempted = 1..Len(IndexList)

\* C23 (as the specification states it): once the connection succeeded, an
\* error in provisioning leaves the object usable: construction returns, the
\* seven handles are cached, and an insert the store accepts returns an
\* identifier.
C23_ProvisioningNeverFatal ==
    (pc = "ready" /\ db # "None") =>
        /\ handles = AllHandles
        /\ (ret.op = "insert_notification" => ret.tag = "id")

\* C24: whatever provisioning did, an index that expires documents is on
\* sensors_data or images_data, on createdAt alone, with cfg.ttl_seconds.
C24_ExpiryOnlyOnTelemetry ==
    \A x \in indexes :
        x.expire # NoExpiry =>
            /\ x.coll \in {"sensors_data", "images_data"}
            /\ x.keys = "createdAt_1"
            /\ x.expire = <<ttl_seconds>>

\* A run on an empty store went through every index call: both expiry
\* indexes are there next to the indexes of the other five collections.
C24_Witness ==
    /\ procs[1].at = "done"
    /\ procs[1].cached
    /\ procs[1].names = CollectionNames
    /\ procs[1].attempted = 1..Len(IndexList)
    /\ procs[1].failed = {}
    /\ indexes = AllIndexes
    /\ Cardinality({x \in indexes : x.expire # NoExpiry}) = 2

----------------------------------------------------------------------------
(* Specification SpecRace: two processes construct a FreshiFyDB against    *)
(* the same store at the same time; the store itself is healthy            *)

Procs == {1, 2}

InitRace ==
    /\ InitConnected
    /\ existing \in {{}, {"sensors_data"}}
    /\ indexes = {}
    /\ procs = [p \in Procs |-> ProcStart]

NextRace ==
    \E p \in Procs :
        \/ ListNames(p, FALSE)
        \/ CreateCheck(p, FALSE)
        \/ \E o \in {"ok", "exists"} : CreateCommand(p, o)
        \/ CreateIndex(p, FALSE)
        \/ CacheCollections(p)

SpecRace == InitRace /\ [][NextRace]_vars

\* C22 (as the specification states it): however the steps of the two
\* processes interleave, both come to the end of provisioning without an
\* error, the seven collections exist, and both have cached their handles.
C22_ConcurrentProvisioning ==
    (\A p \in Procs : procs[p].at = "done") =>
        /\ existing = CollectionNames
        /\ \A p \in Procs : procs[p].cached /\ "setup" \notin procs[p].logged
        /\ handles = AllHandles

----------------------------------------------------------------------------
(* The connection handle after construction, checked under Spec *)

\* C25: client, db and the seven collection handles are written during
\* construction only: once __init__ has returned no operation changes them,
\* and when every attempt failed they are absent and stay absent.
C25_HandleWrittenOnce ==
    /\ [](pc = "ready" /\ connectedAt = 0 =>
             client = "None" /\ db = "None" /\ handles = NoHandles)
    /\ [][pc = "ready" => pc' = "ready" /\ UNCHANGED <<client, db, handles>>]_vars

\* All five attempts failed and a delete was asked of the degraded object.
C25_Witness ==
    /\ pc = "ready"
    /\ max_retries = InitMaxRetries
    /\ connectedAt = 0
    /\ handles = NoHandles
    /\ ret.op = "delete_blog"
    /\ ret.calls = 0

\* C27: after construction client and db are absent together or present
\* together, the seven collection handles are all absent or all present, and
\* a present handle comes with a present db.
C27_HandleShape ==
    pc = "ready" =>
        /\ client = "None" <=> db = "None"
        /\ handles \in {NoHandles, AllHandles}
        /\ (\E c \in CollectionNames : handles[c]) => db # "None"

\* Connected on the third attempt after a ping that failed and a client that
\* could not be built, with the handles cached.
C27_Witness ==
    /\ pc = "ready"
    /\ connectedAt = 3
    /\ client = "MongoClient"
    /\ db = "Database"
    /\ handles = AllHandles
    /\ ret.op = "get_stats"

----------------------------------------------------------------------------
(* Specification SpecBlogs: posts of this owner, of another owner and      *)
(* without an owner field, and the two blog reads                          *)

MaxBlogs == 2       \* posts held at most

\* A post written to the same store by an instance configured with another
\* CURRENT_USER, or a post stored without a user field.
OtherOwnerBlog(user, oid) ==
    /\ pc = "ready"
    /\ oid \in Oids \ UsedOids
    /\ blogs' = blogs \cup
          {[_id |-> oid, user |-> user, title |-> "b", createdAt |-> utcnow]}
    /\ ret' = NoRet
    /\ UNCHANGED <<sensors_data, images_data, notifications, calendar_events,
                   calc_records, thoughts>>
    /\ UNCHANGED <<connVars, extVars, now>>

InitBlogs == InitReady /\ now = <<2024, 1, 25, 0>>

NextBlogs ==
    \/ /\ add_blog("b", NoneT, NextOid, FALSE)
       /\ Cardinality(blogs') <= MaxBlogs
    \/ \E u \in {OtherOwner, Absent} :
          /\ OtherOwnerBlog(u, NextOid)
          /\ Cardinality(blogs') <= MaxBlogs
    \/ \E l \in 0..MaxBlogs : list_blogs(l, FALSE)
    \/ \E s \in IdStrings : get_blog(s, FALSE)

SpecBlogs == InitBlogs /\ [][NextBlogs]_vars

\* The stored post a returned item was made from.
PostOf(item) == CHOOSE d \in blogs : d._id = item._id

\* C26 (as the specification states it): a post that list_blogs or get_blog
\* returns belongs to the configured owner or has no owner field; a post of
\* another owner is never returned.
C26_BlogReadsOwnerOrAbsent ==
    /\ (ret.op = "get_blog" /\ ret.tag = "doc") =>
           PostOf(ret.val).user \in {current_user, Absent}
    /\ (ret.op = "list_blogs" /\ ret.calls = 1) =>
           \A i \in 1..Len(ret.val) : PostOf(ret.val[i]).user \in {current_user, Absent}

----------------------------------------------------------------------------
(* The root launcher (src/main_App.py): the services dict and the          *)
(* auto-restart monitor loop                                               *)

MAX_RESTARTS == 5

\* A slot of the services dict is "None", "running" (a Popen whose process
\* runs) or "exited" (a Popen whose process has ended: poll() is not None).

\* What start_service returns: the Popen, or None when the file is missing
\* or Popen raised.
StartResults == {"running", "None"}

\* Mutant of GivesUp: the monitor gives up one crash later.
GivesUpLate(count) == count > MAX_RESTARTS + 1

\* `if restart_count[name] > MAX_RESTARTS`
GivesUp(count) == count > MAX_RESTARTS

MainFrame ==
    /\ UNCHANGED <<connVars, storeVars, now, ret, provVars, authVars>>

\* A service process ends on its own.
ServiceExits(name) ==
    /\ monitor # 0
    /\ services[name] = "running"
    /\ services' = [services EXCEPT ![name] = "exited"]
    /\ UNCHANGED <<restart_count, restarts, monitor>>
    /\ MainFrame

\* The position after i in `for name, proc in list(services.items())`; after
\* the last one the loop sleeps and starts over.
NextPosition(i) == IF i = Len(ServiceNames) THEN 1 ELSE i + 1

\* One pass of the body of the for loop, for the service at the position of
\* the monitor.  started is what start_service returns if it is called.
MonitorStep(started) ==
    /\ monitor # 0
    /\ LET name == ServiceNames[monitor]
           cnt  == restart_count[name] + 1
       IN  IF services[name] = "exited"
             THEN /\ restart_count' = [restart_count EXCEPT ![name] = cnt]
                  /\ IF GivesUp(cnt)
                       THEN /\ services' = [services EXCEPT ![name] = "None"]
                            /\ UNCHANGED restarts
                       ELSE /\ services' = [services EXCEPT ![name] = started]
                            /\ restarts' = [restarts EXCEPT ![name] = @ + 1]
             ELSE UNCHANGED <<services, restart_count, restarts>>
    /\ monitor' = NextPosition(monitor)
    /\ MainFrame

\* KeyboardInterrupt: the loop is left and the processes are terminated.
Interrupt ==
    /\ monitor # 0
    /\ monitor' = 0
    /\ services' = [n \in DOMAIN services |->
                       IF services[n] = "running" THEN "exited" ELSE services[n]]
    /\ UNCHANGED <<restart_count, restarts>>
    /\ MainFrame

----------------------------------------------------------------------------
(* Specification SpecMain: the launcher from the start of the monitor loop *)

MaxCrashes == 7     \* service processes that end on their own, all services together

ServiceSet == {ServiceNames[i] : i \in 1..Len(ServiceNames)}

RECURSIVE CrashesFrom(_)
CrashesFrom(i) ==
    IF i > Len(ServiceNames) THEN 0
    ELSE restart_count[ServiceNames[i]]
         + (IF services[ServiceNames[i]] = "exited" THEN 1 ELSE 0)
         + CrashesFrom(i + 1)

\* The services dict as the four start_service calls leave it, the counters
\* at zero, the monitor before the first service.
InitMain ==
    /\ ReadyObject
    /\ now = <<2024, 1, 25, 0>>
    /\ existing = CollectionNames
    /\ indexes = AllIndexes
    /\ procs = <<>>
    /\ users = {}
    /\ reqs = <<>>
    /\ services \in [ServiceSet -> StartResults]
    /\ restart_count = [n \in ServiceSet |-> 0]
    /\ restarts = [n \in ServiceSet |-> 0]
    /\ monitor = 1

NextMain ==
    \/ \E n \in ServiceSet : CrashesFrom(1) < MaxCrashes /\ ServiceExits(n)
    \/ \E r \in StartResults : MonitorStep(r)
    \/ Interrupt

SpecMain == InitMain /\ [][NextMain]_vars

\* C28: the monitor restarts a service at most MAX_RESTARTS times in all: the
\* crash counter of a service never goes down, the crash that takes it above
\* MAX_RESTARTS empties the slot of the service, and an empty slot is never
\* filled again.
C28_RestartBudget ==
    /\ [](\A n \in ServiceSet :
            /\ restarts[n] <= MAX_RESTARTS
            /\ restarts[n] <= restart_count[n]
            /\ restart_count[n] <= MAX_RESTARTS + 1
            /\ restart_count[n] > MAX_RESTARTS => services[n] = "None")
    /\ [][\A n \in ServiceSet :
            /\ restart_count'[n] >= restart_count[n]
            /\ services[n] = "None" => services'[n] = "None" /\ restarts'[n] = restarts[n]
            /\ restarts'[n] # restarts[n] =>
                   /\ restarts'[n] = restarts[n] + 1
                   /\ services[n] = "exited"
                   /\ restart_count'[n] = restart_count[n] + 1]_vars

\* A service was restarted five times and ended a sixth time: its slot is
\* empty, while another service still runs.
C28_Witness ==
    /\ monitor # 0
    /\ restart_count["Sensor"] = MAX_RESTARTS + 1
    /\ restarts["Sensor"] = MAX_RESTARTS
    /\ services["Sensor"] = "None"
    /\ services["Image"] = "running"

----------------------------------------------------------------------------
(* The authentication service (src/app/Auth_Service.py): register          *)

\* str.lower() on a str of ASCII characters
lower(s) == [i \in 1..Len(s) |-> LowerChar(s[i])]

\* email = data['email'].strip().lower()
NormalEmail(email) == lower(strip(email))

\* The answer of the validation in register: 400 when a required field is
\* missing or empty, the e-mail has no "@" or no "." or the password is
\* shorter than six characters, 0 when the request goes on.
Validate(data) ==
    LET email == NormalEmail(data.email)
        has(c) == \E i \in 1..Len(email) : email[i] = c
    IN  IF data.name = <<>> \/ data.email = <<>> \/ data.password = <<>> THEN 400
        ELSE IF ~has(64) \/ ~has(46) THEN 400
        ELSE IF Len(data.password) < 6 THEN 400
        ELSE 0

\* A request: the normalised e-mail, where the handler is ("insert" between
\* find_one and insert_one, "done" after the response) and the status of the
\* response (0 while there is none).
Request(email, at, status) == [email |-> email, at |-> at, status |-> status]

AuthFrame ==
    /\ UNCHANGED <<connVars, storeVars, now, ret, provVars, mainVars>>

\* register up to and including db.db['users'].find_one({'email': email}).
\* fault: the store call raises, which the except of register turns into 500.
RegisterCheck(data, fault) ==
    LET email == NormalEmail(data.email)
        code  == Validate(data)
        found == \E u \in users : u.email = email
        req   == IF code # 0 THEN Request(email, "done", code)
                 ELSE IF fault THEN Request(email, "done", 500)
                 ELSE IF found THEN Request(email, "done", 409)
                 ELSE Request(email, "insert", 0)
    IN  /\ reqs' = Append(reqs, req)
        /\ UNCHANGED users
        /\ AuthFrame

\* register from the password hash to the response: insert_one(user_doc), 201.
RegisterInsert(i, fault) ==
    /\ i \in DOMAIN reqs
    /\ reqs[i].at = "insert"
    /\ IF fault
         THEN /\ reqs' = [reqs EXCEPT ![i] = Request(@.email, "done", 500)]
              /\ UNCHANGED users
         ELSE /\ reqs' = [reqs EXCEPT ![i] = Request(@.email, "done", 201)]
              /\ users' = users \cup {[_id |-> i, email |-> reqs[i].email]}
    /\ AuthFrame

----------------------------------------------------------------------------
(* Specification SpecAuth: register requests served concurrently           *)

MaxRequests == 3    \* register requests received

\* "A@b.c", " a@b.c" followed by a newline, "x@y.z", "ab" and no e-mail.
Emails ==
    { <<65, 64, 98, 46, 99>>, <<32, 97, 64, 98, 46, 99, 10>>,
      <<120, 64, 121, 46, 122>>, <<97, 98>>, <<>> }

RegisterBodies ==
    {[name |-> <<110>>, email |-> e, password |-> <<115, 101, 99, 114, 101, 116>>] :
        e \in Emails}
    \cup {[name |-> <<110>>, email |-> <<65, 64, 98, 46, 99>>, password |-> <<112, 119>>],
          [name |-> <<>>, email |-> <<65, 64, 98, 46, 99>>,
           password |-> <<115, 101, 99, 114, 101, 116>>]}

InitAuth == InitReady /\ now = <<2024, 1, 25, 0>>

NextAuth ==
    \/ \E d \in RegisterBodies, f \in BOOLEAN :
          Len(reqs) < MaxRequests /\ RegisterCheck(d, f)
    \/ \E i \in 1..MaxRequests, f \in BOOLEAN : RegisterInsert(i, f)

SpecAuth == InitAuth /\ [][NextAuth]_vars

\* C29 (as stated): however the register requests interleave, the users
\* collection holds at most one document for a normalised e-mail.
C29_OneUserPerEmail ==
    \A u1, u2 \in users : u1.email = u2.email => u1 = u2

----------------------------------------------------------------------------
(* The sensor service                                                      *)
(* (src/app/Sensor_module/Gas_Sensor/Sensor_Flask_API_Endpoints.py):       *)
(* GET /history                                                            *)

DefaultLimit == 30

\* limit = int(request.args.get("limit", 30)), 30 on ValueError.  The query
\* parameter is absent, the text of an integer, or some other text.
ParseLimit(arg) ==
    IF arg = NoneT THEN DefaultLimit
    ELSE IF FloatRaises(arg) THEN DefaultLimit
    ELSE arg[2]

\* What db.get_history(user, limit) can return.
HistoryResults(user, limit, fails) ==
    IF db = "None" \/ fails THEN {<<>>}
    ELSE {MergeHistory(sens, imgs, limit) :
             sens \in FindByUser(sensors_data, user, limit),
             imgs \in FindByUser(images_data, user, limit)}

IsSensor(i) == i.type = "sensor"

\* Mutant of SensorsOnly: the items are passed on as they are.
SensorsOnlyUnfiltered(items) == items

\* [i for i in items if i.get("type") == "sensor"]
SensorsOnly(items) == SelectSeq(items, IsSensor)

\* The handler of GET /history.  The items get_history handed over are kept
\* next to the parsed cap in the argument of the answer.
history(arg, fails) ==
    LET limit == ParseLimit(arg)
    IN  /\ pc = "ready"
        /\ \E items \in HistoryResults(current_user, limit, fails) :
              ret' = Ret("history", [limit |-> limit, items |-> items, failed |-> fails],
                         "200", SensorsOnly(items), FALSE, IF db = "None" THEN 0 ELSE 1)
        /\ ReadFrame

----------------------------------------------------------------------------
(* Specification SpecSensor: telemetry of two owners and GET /history      *)

LimitArgs == {NoneT, Text(<<97, 98, 99>>)} \cup {Num(l) : l \in 0..MaxLimit}

InitSensor == InitReady /\ now = <<2024, 1, 25, 0>>

NextSensor ==
    \/ \E u \in {None, "u2"}, t \in HistInstants :
          /\ insert_sensor_result(u, Num(120), "Fresh", t, FALSE)
          /\ Cardinality(sensors_data') + Cardinality(images_data) <= MaxTelemetry
    \/ \E u \in {None, "u2"}, t \in HistInstants :
          /\ insert_image_result(u, "Fresh", t, FALSE)
          /\ Cardinality(sensors_data) + Cardinality(images_data') <= MaxTelemetry
    \/ \E a \in LimitArgs, f \in BOOLEAN : history(a, f)

SpecSensor == InitSensor /\ [][NextSensor]_vars

\* The records of the owner that are later than the record of item x.
LaterThan(x) ==
    {r \in OwnRecords(current_user) :
        InstantLess(RecordOf(current_user, x).at, r.at)}

\* C30: GET /history with cap L answers with the sensor items of
\* get_history(owner, L) and with nothing else, in the order get_history gave
\* them: never more than L items, and never a sensor reading that has L or
\* more records of the merged view after it in time.
C30_SensorHistory ==
    ret.op = "history" =>
        LET L     == ret.arg.limit
            items == ret.arg.items
            out   == ret.val
            kept  == {k \in 1..Len(items) : items[k].type = "sensor"}
        IN  /\ ret.tag = "200"
            /\ items \in HistoryResults(current_user, L, ret.arg.failed)
            /\ Len(out) = Cardinality(kept)
            /\ Len(out) <= L
            /\ \A j \in 1..Len(out) :
                  /\ out[j].type = "sensor"
                  /\ \E k \in kept :
                        /\ items[k] = out[j]
                        /\ Cardinality({m \in kept : m <= k}) = j
                  /\ Cardinality(LaterThan(out[j])) < L

\* With a cap of 2, an image result among the two newest records keeps the
\* older of the owner's two sensor readings out of the answer.
C30_Witness ==
    /\ ret.op = "history"
    /\ ret.arg.limit = 2
    /\ Len(ret.arg.items) = 2
    /\ Len(ret.val) = 1
    /\ Cardinality({d \in sensors_data : d.user = current_user}) = 2

====
